---- MODULE Spec2Model ----
(***************************************************************************)
(* Model of the streaming chat pipeline of lm-studio-chat:                 *)
(*   - the error taxonomy            (services/api/errors.ts)              *)
(*   - LMStudioClient.request        (services/api/lmStudioClient.ts)      *)
(*   - parseStreamResponse / processStream (services/api/streamParser.ts)  *)
(*   - ChatService.sendMessageStream (services/api/chatService.ts)         *)
(*                                                                         *)
(* JavaScript runs one callback to completion at a time, so the points at  *)
(* which the environment (network, timers, the user) can interleave are    *)
(* exactly the awaits of the code.  Every action below runs the code from  *)
(* one await to the next.                                                  *)
(***************************************************************************)
EXTENDS Integers, Sequences, FiniteSets, TLC

(***************************************************************************)
(* Bounds of the model.                                                    *)
(***************************************************************************)
MaxRetriesBound == 2        \* retryConfig.maxRetries ranges over 0..MaxRetriesBound
MaxLines == 3               \* number of lines of a streamed SSE payload
MaxSetterCalls == 1         \* calls of setBaseUrl/setTimeout/setRetryConfig in a run
MaxSends == 2               \* runs of useStreamingChat.sendMessage
MaxChunks == 2              \* onContent calls of one stream
MaxSaves == 2               \* runs of saveChat the provider starts
MaxClients == 2             \* LMStudioClient instances made
MaxPolicySets == 3          \* setRetryConfig calls on those instances
MaxCount == 3               \* the count argument of checkMultiple ranges over 0..MaxCount

(***************************************************************************)
(* ERROR TAXONOMY (errors.ts)                                              *)
(* A thrown value is a record.  api = TRUE for instances of APIError and   *)
(* its subclasses (cls is the class), api = FALSE for values thrown by the *)
(* platform (name and msg are Error.name and Error.message).  cause is     *)
(* <<>> for "no originalError" and <<e>> for originalError = e.            *)
(***************************************************************************)
NoStatus == 0               \* statusCode === undefined

ErrorCodes ==
  [NETWORK_ERROR |-> "NETWORK_ERROR", TIMEOUT_ERROR |-> "TIMEOUT_ERROR",
   SERVER_ERROR |-> "SERVER_ERROR", STREAM_ERROR |-> "STREAM_ERROR",
   MODEL_NOT_FOUND |-> "MODEL_NOT_FOUND", VALIDATION_ERROR |-> "VALIDATION_ERROR",
   CANCELLED |-> "CANCELLED", PARSE_ERROR |-> "PARSE_ERROR",
   UNKNOWN_ERROR |-> "UNKNOWN_ERROR"]

APIError(message, code, statusCode, originalError) ==
  [api |-> TRUE, isError |-> TRUE, cls |-> "APIError", name |-> "APIError",
   code |-> code, status |-> statusCode, msg |-> message, cause |-> originalError]

NetworkError(message, originalError) ==
  [APIError(message, "NETWORK_ERROR", NoStatus, originalError)
     EXCEPT !.cls = "NetworkError", !.name = "NetworkError"]

TimeoutError(message) ==
  [APIError(message, "TIMEOUT_ERROR", NoStatus, <<>>)
     EXCEPT !.cls = "TimeoutError", !.name = "TimeoutError"]

ServerError(message, statusCode) ==
  [APIError(message, "SERVER_ERROR", statusCode, <<>>)
     EXCEPT !.cls = "ServerError", !.name = "ServerError"]

StreamError(message, originalError) ==
  [APIError(message, "STREAM_ERROR", NoStatus, originalError)
     EXCEPT !.cls = "StreamError", !.name = "StreamError"]

CancellationError(message) ==
  [APIError(message, "CANCELLED", NoStatus, <<>>)
     EXCEPT !.cls = "CancellationError", !.name = "CancellationError"]

\* ModelNotFoundError(message, modelId); the record carries the modelId.
ModelNotFoundError(message, modelId) ==
  [api |-> TRUE, isError |-> TRUE, cls |-> "ModelNotFoundError",
   name |-> "ModelNotFoundError", code |-> "MODEL_NOT_FOUND", status |-> 404,
   msg |-> message, cause |-> <<>>, modelId |-> modelId]

\* ValidationError(message, field); the record carries the field as well.
ValidationError(message, field) ==
  [api |-> TRUE, isError |-> TRUE, cls |-> "ValidationError",
   name |-> "ValidationError", code |-> "VALIDATION_ERROR", status |-> 400,
   msg |-> message, cause |-> <<>>, field |-> field]

ParseError(message, originalError) ==
  [APIError(message, "PARSE_ERROR", NoStatus, originalError)
     EXCEPT !.cls = "ParseError", !.name = "ParseError"]

\* A value thrown by the platform: an Error (or DOMException) with a name
\* and a message.
NativeError(name, message) ==
  [api |-> FALSE, isError |-> TRUE, cls |-> "Error", name |-> name,
   code |-> "", status |-> NoStatus, msg |-> message, cause |-> <<>>]

\* The rejection of fetch / body reads / reader.read() when the request's
\* abort signal has fired: a DOMException named AbortError.
AbortErrorValue == NativeError("AbortError", "Aborted")

\* Failures of the transport and of JSON decoding, as the platform throws them.
NetworkFailure == NativeError("TypeError", "Network request failed")
FetchFailure == NativeError("TypeError", "Failed to fetch")
PlatformTimeout == NativeError("Error", "socket timeout")
SyntaxFailure == NativeError("SyntaxError", "Unexpected token")

\* Other values a catch block can receive: a DOMException named TimeoutError,
\* errors whose messages spell the words in lower case or hold two of them,
\* and a thrown value that is no Error.
TimedOutSignal == NativeError("TimeoutError", "The operation timed out")
LowerCaseNetwork == NativeError("Error", "network error")
LowerCaseFetch == NativeError("TypeError", "failed to fetch")
NetworkTimeout == NativeError("Error", "Network timeout")
AbortedTimeout == NativeError("AbortError", "Network timeout")
ThrownString ==
  [api |-> FALSE, isError |-> FALSE, cls |-> "string", name |-> "",
   code |-> "", status |-> NoStatus, msg |-> "Network timeout", cause |-> <<>>]

\* String.prototype.includes over the messages of the model.
Includes(message, needle) ==
  <<message, needle>> \in
    { <<"Network request failed", "Network">>,
      <<"Failed to fetch", "Failed to fetch">>,
      <<"socket timeout", "timeout">>,
      <<"Request timeout", "timeout">>,
      <<"Network timeout", "Network">>,
      <<"Network timeout", "timeout">> }

\* handleFetchError testing for a network failure before a timeout.
handleFetchError_NetworkFirst(error) ==
  IF error.api THEN error
  ELSE IF error.isError THEN
    IF error.name = "AbortError" THEN CancellationError("Request was cancelled")
    ELSE IF Includes(error.msg, "Network") \/ Includes(error.msg, "Failed to fetch")
      THEN NetworkError("Network request failed", <<error>>)
    ELSE IF error.name = "TimeoutError" \/ Includes(error.msg, "timeout")
      THEN TimeoutError("Request timeout")
    ELSE APIError(error.msg, ErrorCodes.UNKNOWN_ERROR, NoStatus, <<error>>)
  ELSE APIError("An unknown error occurred", ErrorCodes.UNKNOWN_ERROR, NoStatus, <<>>)

handleFetchError(error) ==
  IF error.api THEN error
  ELSE IF error.isError THEN
    IF error.name = "AbortError" THEN CancellationError("Request was cancelled")
    ELSE IF error.name = "TimeoutError" \/ Includes(error.msg, "timeout")
      THEN TimeoutError("Request timeout")
    ELSE IF Includes(error.msg, "Network") \/ Includes(error.msg, "Failed to fetch")
      THEN NetworkError("Network request failed", <<error>>)
    ELSE APIError(error.msg, ErrorCodes.UNKNOWN_ERROR, NoStatus, <<error>>)
  ELSE APIError("An unknown error occurred", ErrorCodes.UNKNOWN_ERROR, NoStatus, <<>>)

\* isRetryableError with the status range of server errors dropped.
isRetryableError_AnyServerError(error) ==
  error.cls \in {"NetworkError", "TimeoutError", "ServerError"}

\* isRetryableError with the upper end of the status range included.
isRetryableError_Through600(error) ==
  IF error.cls = "NetworkError" THEN TRUE
  ELSE IF error.cls = "TimeoutError" THEN TRUE
  ELSE IF error.cls = "ServerError"
    THEN error.status # NoStatus /\ error.status >= 500 /\ error.status <= 600
  ELSE FALSE

isRetryableError(error) ==
  IF error.cls = "NetworkError" THEN TRUE
  ELSE IF error.cls = "TimeoutError" THEN TRUE
  ELSE IF error.cls = "ServerError"
    THEN error.status # NoStatus /\ error.status >= 500 /\ error.status < 600
  ELSE FALSE

(***************************************************************************)
(* STATE                                                                   *)
(***************************************************************************)
VARIABLES
  \* ---- LMStudioClient and one call of request() ----
  retryConfig,    \* this.retryConfig
  reqPc,          \* position of the call: idle, fetch, text, json, sleep, returned, threw
  attempt,        \* the loop variable of request()
  lastError,      \* lastError: <<>> (null) or <<e>>
  signal,         \* the caller's AbortSignal: "none" (not passed), "armed", "aborted"
  combined,       \* combinedSignal.aborted of the attempt in progress
  abortedBy,      \* what aborted combinedSignal first: "none", "user", "timeout"
  timers,         \* attempts whose timeout timer is armed and not yet cleared or fired
  respStatus,     \* response.status of the response fetch resolved with
  thrown,         \* the error request() rejected with: <<>> or <<e>>
  netAttempts,    \* history: fetch calls issued with a signal that was not yet aborted
  outcomes,       \* history: how each finished attempt ended
  cancelPc,       \* history: reqPc at the moment the caller cancelled ("none" before)
  cancelNet,      \* history: netAttempts at the moment the caller cancelled
  config,         \* this.config: baseUrl and timeout
  url,            \* the constant url of the call of request()
  started,        \* history: config and retryConfig at the moment the call started
  armed,          \* history: per attempt, the url fetched and the timeout its timer got
  errors,         \* history: per failed attempt, the error the catch block classified
  delays,         \* history: per retry wait, the delay passed to sleep
  setterCalls     \* history: number of calls of the setters so far

VARIABLES
  \* ---- one call of ChatService.sendMessageStream ----
  smsPc,          \* position of the call: idle, hsFetch, hsText, reading, returned, threw
  strSignal,      \* options.signal: "none" (not passed), "armed", "aborted"
  strCombined,    \* combinedSignal.aborted of postStream
  strAbortedBy,   \* what aborted it first: "none", "user", "timeout"
  strTimer,       \* the STREAM_TIMEOUT timer of postStream is armed
  hsStatus,       \* response.status of the handshake response
  payload,        \* the text of the response body, as the server sends it
  pos,            \* how much of payload reader.read() has delivered
  buffer,         \* buffer of parseStreamResponse
  readerLocked,   \* the body's reader is locked (getReader without releaseLock)
  genEnd,         \* the generator: none (not created), active, returned, threw,
                  \*   closed (the consumer left the loop and return() ran)
  genThrown,      \* the error the generator threw: <<>> or <<e>>
  yielded,        \* the chunks yielded so far (= chunks of sendMessageStream)
  fullContent,    \* fullContent of processStream
  finishReason,   \* finishReason of processStream
  callbacks,      \* the calls of options.onChunk/onContent/onComplete/onError so far
  smsThrown,      \* the error sendMessageStream rejected with: <<>> or <<e>>
  strNet,         \* history: fetch calls issued with a signal not yet aborted
  readFailure,    \* history: the value reader.read() rejected with: <<>> or <<e>>
  splitLine,      \* history: some read batch ended inside a line
  cbAtCancel      \* history: <<>>, or <<n>>: the caller cancelled after n callbacks

VARIABLES
  \* ---- ChatProvider (ChatContext.tsx) and useStreamingChat ----
  activeChat,     \* activeChat of the last committed render: title and messages
  chats,          \* the same conversation in the chats list
  isStreaming,    \* isStreaming of ChatProvider
  isSending,      \* isSending of useStreamingChat
  abortControllerRef,  \* abortControllerRef.current: 0 (null) or the call that set it
  calls           \* the calls of useStreamingChat.sendMessage, in order

VARIABLES
  \* ---- one call of a ChatService operation on a request ----
  svcOp,          \* the operation called: none, sendMessage, sendMessageStream, streamMessage
  svcMessages,    \* the messages argument
  svcModel,       \* the model argument
  svcPc,          \* idle, created (generator not pulled yet), sent, threw
  svcThrown,      \* the error the call raised: <<>> or <<e>>
  transportCalls  \* number of calls of client.post / client.postStream

VARIABLES
  \* ---- one application of the error classifiers ----
  caught,         \* the value a catch block received
  handled,        \* handleFetchError(caught): <<>> before the call, then <<e>>
  handledTwice,   \* handleFetchError of that result: <<>> or <<e>>
  retryable       \* isRetryableError of the result: <<>> or <<b>>

VARIABLES
  \* ---- HealthCheckService: one check, alone or inside checkMultiple ----
  hcPc,           \* check: idle, get (awaiting client.get), returned, raised
  hcOutcome,      \* history: how client.get settled: <<>> or <<outcome>>
  hcResult,       \* the HealthCheckResult returned: <<>> or <<result>>
  cmPc,           \* checkMultiple: idle, check, delay, returned
  cmCount,        \* its count argument
  cmResults,      \* its results array
  cmReturn,       \* the value it returned: <<>> or <<value>>
  cmStarted       \* history: the runs of check it started

VARIABLES
  \* ---- one call of ModelService.getModel ----
  msPc,           \* idle, getModels (awaiting it), returned, threw
  msModelId,      \* the modelId argument
  msOutcome,      \* history: how getModels settled: <<>> or <<outcome>>
  msResult        \* the model returned or the error raised: <<>> or <<value>>

VARIABLES
  \* ---- the chunk helpers of streamParser.ts applied to one chunk ----
  givenChunk,     \* the chunk the parser yielded
  extracted,      \* extractContentFromChunk(givenChunk): <<>> before the call, then
                  \*   <<"returned", content>> or <<"threw", error>>
  complete        \* isStreamComplete(givenChunk): <<>> or <<b>>

VARIABLES
  \* ---- chat persistence: chatStorage.ts over AsyncStorage, and the ----
  \* ---- ChatProvider state that drives it                          ----
  persisted,          \* the chat list stored under STORAGE_KEYS.CHATS
  persistedActiveId,  \* the id stored under STORAGE_KEYS.ACTIVE_CHAT_ID
  storageQueue,       \* the AsyncStorage requests pending, in the order issued
  storeOps,           \* the runs of saveChat and of ChatContext.deleteChat
  provActiveChat,     \* the provider's activeChat: <<>> for null, else <<chat>>
  provChats,          \* the provider's chats
  deletedIds          \* history: the ids whose deleteChat has completed

VARIABLES
  \* ---- LMStudioClient instances and the objects their retryConfig ----
  \* ---- fields refer to                                           ----
  heap,               \* the RetryConfig objects, by address
  instances,          \* per instance: the address its retryConfig field holds
  lastSet             \* history: the last setRetryConfig call, <<>> before it

clientVars == <<retryConfig, reqPc, attempt, lastError, signal, combined, abortedBy,
                timers, respStatus, thrown, netAttempts, outcomes, cancelPc, cancelNet,
                config, url, started, armed, errors, delays, setterCalls>>

streamVars == <<smsPc, strSignal, strCombined, strAbortedBy, strTimer, hsStatus, payload,
                pos, buffer, readerLocked, genEnd, genThrown, yielded, fullContent,
                finishReason, callbacks, smsThrown, strNet, readFailure, splitLine,
                cbAtCancel>>

chatVars == <<activeChat, chats, isStreaming, isSending, abortControllerRef, calls>>

svcVars == <<svcOp, svcMessages, svcModel, svcPc, svcThrown, transportCalls>>

errVars == <<caught, handled, handledTwice, retryable>>

healthVars == <<hcPc, hcOutcome, hcResult, cmPc, cmCount, cmResults, cmReturn, cmStarted>>

modelVars == <<msPc, msModelId, msOutcome, msResult>>

chunkVars == <<givenChunk, extracted, complete>>

storageVars == <<persisted, persistedActiveId, storageQueue, storeOps, provActiveChat,
                 provChats, deletedIds>>

instanceVars == <<heap, instances, lastSet>>

vars == <<clientVars, streamVars, chatVars, svcVars, errVars, healthVars, modelVars,
          chunkVars, storageVars, instanceVars>>

\* What an action of one component leaves alone.
exceptClient == <<streamVars, chatVars, svcVars, errVars, healthVars, modelVars, chunkVars,
    storageVars, instanceVars>>
exceptStream == <<clientVars, chatVars, svcVars, errVars, healthVars, modelVars, chunkVars,
    storageVars, instanceVars>>
exceptChat == <<clientVars, streamVars, svcVars, errVars, healthVars, modelVars, chunkVars,
    storageVars, instanceVars>>
exceptService == <<clientVars, streamVars, chatVars, errVars, healthVars, modelVars, chunkVars,
    storageVars, instanceVars>>
exceptErrors == <<clientVars, streamVars, chatVars, svcVars, healthVars, modelVars, chunkVars,
    storageVars, instanceVars>>
exceptHealth == <<clientVars, streamVars, chatVars, svcVars, errVars, modelVars, chunkVars,
    storageVars, instanceVars>>
exceptModels == <<clientVars, streamVars, chatVars, svcVars, errVars, healthVars, chunkVars,
    storageVars, instanceVars>>
exceptChunks == <<clientVars, streamVars, chatVars, svcVars, errVars, healthVars, modelVars,
    storageVars, instanceVars>>
exceptStorage == <<clientVars, streamVars, chatVars, svcVars, errVars, healthVars, modelVars,
    chunkVars, instanceVars>>
exceptInstances == <<clientVars, streamVars, chatVars, svcVars, errVars, healthVars, modelVars,
    chunkVars, storageVars>>

(***************************************************************************)
(* API CLIENT (lmStudioClient.ts)                                          *)
(***************************************************************************)
DEFAULT_RETRY_CONFIG ==
  [maxRetries |-> 3, initialDelayMs |-> 1000, maxDelayMs |-> 10000,
   backoffMultiplier |-> 2]

\* HTTP statuses the modelled server answers with.
Statuses == {200, 400, 500, 503}

ResponseOk(status) == status >= 200 /\ status <= 299

\* The two bodies of a non-2xx response the code distinguishes: JSON with an
\* error.message field, or anything else.
ErrorBodies == {"json-with-message", "other"}

ServerErrorMessage(status, body) ==
  IF body = "json-with-message" THEN "model crashed"
  ELSE "Server error: " \o ToString(status)

\* API_CONFIG.DEFAULT_TIMEOUT
DEFAULT_TIMEOUT == 30000

\* URLs are sequences of tokens; "/" is a token of its own where it matters.
BaseUrls == { <<"http://a:1234">>, <<"http://b:1234", "/">> }
RequestPath == <<"/v1/models">>

\* baseUrl.replace(/\/$/, '')
RemoveTrailingSlash(baseUrl) ==
  IF baseUrl # <<>> /\ baseUrl[Len(baseUrl)] = "/"
    THEN SubSeq(baseUrl, 1, Len(baseUrl) - 1)
    ELSE baseUrl

\* The constructor: new LMStudioClient(baseUrl, timeout).
NewConfig(baseUrl, timeout) ==
  [baseUrl |-> RemoveTrailingSlash(baseUrl), timeout |-> timeout]

\* Math.pow for a natural exponent, and Math.min.
RECURSIVE Pow(_, _)
Pow(b, n) == IF n = 0 THEN 1 ELSE b * Pow(b, n - 1)

Min(a, b) == IF a <= b THEN a ELSE b

\* The values of Math.random() * 1000 the model draws (milliseconds in
\* [0, 1000)).
Randoms == {0, 999}

\* calculateRetryDelay with the exponent one too high.
calculateRetryDelay_NextIndex(attemptNumber, random) ==
  [n |-> attemptNumber, random |-> random,
   ms |-> Min(retryConfig.initialDelayMs
                * Pow(retryConfig.backoffMultiplier, attemptNumber + 1),
              retryConfig.maxDelayMs) + random]

\* calculateRetryDelay(attemptNumber), with `random` for Math.random() * 1000.
\* The value records its arguments next to the result ms.
calculateRetryDelay(attemptNumber, random) ==
  [n |-> attemptNumber, random |-> random,
   ms |-> Min(retryConfig.initialDelayMs
                * Pow(retryConfig.backoffMultiplier, attemptNumber),
              retryConfig.maxDelayMs) + random]

\* combineAbortSignals(signal, timeoutController.signal) at the start of an
\* attempt: the result is aborted at once iff the caller's signal already is
\* (the fresh timeout signal never is).
combineAbortSignals(userSignal) == userSignal = "aborted"

\* The head of the for loop for index k followed by the code up to the await
\* of fetch: arm the timer, merge the signals, call fetch.  With the loop
\* condition false, the code after the loop throws lastError.
LoopIteration(k) ==
  IF k <= retryConfig.maxRetries
    THEN /\ attempt' = k
         /\ timers' = timers \cup {k}
         /\ combined' = combineAbortSignals(signal)
         /\ abortedBy' = IF combineAbortSignals(signal) THEN "user" ELSE "none"
         /\ netAttempts' = IF combineAbortSignals(signal) THEN netAttempts
                           ELSE netAttempts + 1
         /\ armed' = Append(armed, [url |-> url', timeout |-> config.timeout])
         /\ reqPc' = "fetch"
         /\ UNCHANGED thrown
    ELSE /\ attempt' = k
         /\ reqPc' = "threw"
         /\ thrown' = IF lastError # <<>> THEN lastError
                      ELSE <<APIError("Request failed after retries", "REQUEST_FAILED",
                                      NoStatus, <<>>)>>
         /\ UNCHANGED <<timers, combined, abortedBy, netAttempts, armed>>

\* request(path, options, signal): the call starts.
RequestStart(sig) ==
  /\ reqPc = "idle"
  /\ signal' = sig
  /\ lastError' = <<>>
  /\ cancelPc' = IF sig = "aborted" THEN "idle" ELSE "none"
  /\ url' = config.baseUrl \o RequestPath
  /\ started' = <<[config |-> config, retryConfig |-> retryConfig]>>
  /\ LoopIteration(0)
  /\ UNCHANGED <<retryConfig, config, setterCalls,
                 respStatus, outcomes, cancelNet, errors, delays>>
  /\ UNCHANGED exceptClient

InFlight == reqPc \in {"fetch", "text", "json", "sleep"}

\* The caller aborts its AbortController while the call is in flight.  The
\* listener installed by combineAbortSignals aborts the combined controller.
Cancel ==
  /\ InFlight
  /\ signal = "armed"
  /\ signal' = "aborted"
  /\ cancelPc' = reqPc
  /\ cancelNet' = netAttempts
  /\ IF reqPc \in {"fetch", "text", "json"} /\ ~combined
       THEN combined' = TRUE /\ abortedBy' = "user"
       ELSE UNCHANGED <<combined, abortedBy>>
  /\ UNCHANGED <<retryConfig, config, setterCalls,
                 reqPc, attempt, lastError, timers, respStatus, thrown,
                 netAttempts, outcomes, url, started, armed, errors, delays>>
  /\ UNCHANGED exceptClient

\* The timeout timer of attempt k fires: timeoutController.abort().  Only the
\* combined signal of attempt k listens to it.
TimerFire(k) ==
  /\ k \in timers
  /\ timers' = timers \ {k}
  /\ IF k = attempt /\ reqPc = "fetch" /\ ~combined
       THEN combined' = TRUE /\ abortedBy' = "timeout"
       ELSE UNCHANGED <<combined, abortedBy>>
  /\ UNCHANGED <<retryConfig, config, setterCalls,
                 reqPc, attempt, lastError, signal, respStatus, thrown,
                 netAttempts, outcomes, cancelPc, cancelNet, url, started, armed, errors,
                 delays>>
  /\ UNCHANGED exceptClient

\* History record of a finished attempt: how it ended ("response": a response
\* was received and its body read; "abort": fetch rejected because the combined
\* signal fired; "transport": fetch rejected otherwise; "body": the body read
\* rejected) and the status of the response, if any.
Outcome(how, status) == [how |-> how, status |-> status]

\* The catch block keeping the first error it saw as lastError.
Catch_RaiseFirstError(error, tag) ==
  LET e == handleFetchError(error)
      first == IF lastError = <<>> THEN e ELSE lastError[1] IN
  /\ lastError' = <<first>>
  /\ outcomes' = Append(outcomes, tag)
  /\ errors' = Append(errors, e)
  /\ IF e.cls = "CancellationError"
       THEN reqPc' = "threw" /\ thrown' = <<e>> /\ UNCHANGED delays
       ELSE IF ~isRetryableError(e) \/ attempt >= retryConfig.maxRetries
         THEN reqPc' = "threw" /\ thrown' = <<first>> /\ UNCHANGED delays
         ELSE /\ \E random \in Randoms :
                   delays' = Append(delays, calculateRetryDelay(attempt, random))
              /\ reqPc' = "sleep"
              /\ UNCHANGED thrown

\* The catch block of request() for a caught value.
Catch(error, tag) ==
  LET e == handleFetchError(error) IN
  /\ lastError' = <<e>>
  /\ outcomes' = Append(outcomes, tag)
  /\ errors' = Append(errors, e)
  /\ IF e.cls = "CancellationError"
       THEN reqPc' = "threw" /\ thrown' = <<e>> /\ UNCHANGED delays
       ELSE IF ~isRetryableError(e) \/ attempt >= retryConfig.maxRetries
         THEN reqPc' = "threw" /\ thrown' = <<e>> /\ UNCHANGED delays
         ELSE /\ \E random \in Randoms :
                   delays' = Append(delays, calculateRetryDelay(attempt, random))
              /\ reqPc' = "sleep"
              /\ UNCHANGED thrown

\* await fetch(...) settles.  With the combined signal aborted it rejects with
\* an AbortError; otherwise the server answers or the transport fails.
FetchResolve(status) ==
  /\ reqPc = "fetch"
  /\ ~combined
  /\ respStatus' = status
  /\ timers' = timers \ {attempt}                  \* clearTimeout(timeoutId)
  /\ reqPc' = IF ResponseOk(status) THEN "json" ELSE "text"
  /\ UNCHANGED <<retryConfig, config, setterCalls,
                 attempt, lastError, signal, combined, abortedBy, thrown,
                 netAttempts, outcomes, cancelPc, cancelNet, url, started, armed, errors,
                 delays>>
  /\ UNCHANGED exceptClient

FetchReject(error) ==
  /\ reqPc = "fetch"
  /\ IF combined THEN error = AbortErrorValue ELSE error # AbortErrorValue
  /\ Catch(error, Outcome(IF combined THEN "abort" ELSE "transport", NoStatus))
  /\ UNCHANGED <<retryConfig, config, setterCalls,
                 attempt, signal, combined, abortedBy, timers, respStatus,
                 netAttempts, cancelPc, cancelNet, url, started, armed>>
  /\ UNCHANGED exceptClient

\* await response.text() of a non-2xx response settles, then the ServerError is
\* thrown into the catch block.  Once the signal has fired the read may reject
\* with an AbortError (platforms that stream the body) or still succeed
\* (platforms that hold the whole body when fetch resolves).
TextResolve(body) ==
  /\ reqPc = "text"
  /\ Catch(ServerError(ServerErrorMessage(respStatus, body), respStatus),
           Outcome("response", respStatus))
  /\ UNCHANGED <<retryConfig, config, setterCalls,
                 attempt, signal, combined, abortedBy, timers, respStatus,
                 netAttempts, cancelPc, cancelNet, url, started, armed>>
  /\ UNCHANGED exceptClient

\* await response.json() of a 2xx response settles: the call returns.
JsonResolve ==
  /\ reqPc = "json"
  /\ reqPc' = "returned"
  /\ outcomes' = Append(outcomes, Outcome("response", respStatus))
  /\ UNCHANGED <<retryConfig, config, setterCalls,
                 attempt, lastError, signal, combined, abortedBy, timers,
                 respStatus, thrown, netAttempts, cancelPc, cancelNet, url, started, armed,
                 errors, delays>>
  /\ UNCHANGED exceptClient

\* A body read (text() or json()) rejects: with an AbortError after the signal
\* fired, with a SyntaxError for a 2xx body that is not JSON.
BodyReject(error) ==
  /\ reqPc \in {"text", "json"}
  /\ \/ combined /\ error = AbortErrorValue
     \/ reqPc = "json" /\ error = SyntaxFailure
  /\ Catch(error, Outcome("body", respStatus))
  /\ UNCHANGED <<retryConfig, config, setterCalls,
                 attempt, signal, combined, abortedBy, timers, respStatus,
                 netAttempts, cancelPc, cancelNet, url, started, armed>>
  /\ UNCHANGED exceptClient

\* await this.sleep(delay) resolves: attempt++ and the next loop iteration.
SleepDone ==
  /\ reqPc = "sleep"
  /\ UNCHANGED <<retryConfig, config, setterCalls, lastError, signal, respStatus, outcomes,
                 cancelPc, cancelNet, url, started, errors, delays>>
  /\ LoopIteration(attempt + 1)
  /\ UNCHANGED exceptClient

PlatformErrors == {AbortErrorValue, NetworkFailure, FetchFailure, PlatformTimeout}

InitClientVars ==
  /\ reqPc = "idle"
  /\ attempt = 0
  /\ lastError = <<>>
  /\ signal = "none"
  /\ combined = FALSE
  /\ abortedBy = "none"
  /\ timers = {}
  /\ respStatus = NoStatus
  /\ thrown = <<>>
  /\ netAttempts = 0
  /\ outcomes = <<>>
  /\ cancelPc = "none"
  /\ cancelNet = 0
  /\ url = <<>>
  /\ started = <<>>
  /\ armed = <<>>
  /\ errors = <<>>
  /\ delays = <<>>
  /\ setterCalls = 0

InitStreamVars ==
  /\ smsPc = "idle"
  /\ strSignal = "none"
  /\ strCombined = FALSE
  /\ strAbortedBy = "none"
  /\ strTimer = FALSE
  /\ hsStatus = NoStatus
  /\ payload = <<>>
  /\ pos = 0
  /\ buffer = <<>>
  /\ readerLocked = FALSE
  /\ genEnd = "none"
  /\ genThrown = <<>>
  /\ yielded = <<>>
  /\ fullContent = ""
  /\ finishReason = "null"
  /\ callbacks = <<>>
  /\ smsThrown = <<>>
  /\ strNet = 0
  /\ readFailure = <<>>
  /\ splitLine = FALSE
  /\ cbAtCancel = <<>>

\* maxLength of generateChatTitle
maxLength == 50

\* A text: its pieces and its number of characters.
Text(body, len) == [body |-> body, len |-> len]

NoText == Text(<<>>, 0)

\* A title: the first len characters of a text, followed by '...' or not.
Title(body, len, ellipsis) == [body |-> body, len |-> len, ellipsis |-> ellipsis]

\* 'New Chat'
NewChatTitle == Title(<<"New Chat">>, 8, FALSE)

\* A Chat: its title and its messages.
Chat(title, messages) == [title |-> title, messages |-> messages]

\* createNewChat: the chat it makes
NewChat == Chat(NewChatTitle, <<>>)

InitChatVars ==
  /\ activeChat = NewChat
  /\ chats = NewChat
  /\ isStreaming = FALSE
  /\ isSending = FALSE
  /\ abortControllerRef = 0
  /\ calls = <<>>

InitServiceVars ==
  /\ svcOp = "none"
  /\ svcMessages = <<>>
  /\ svcModel = ""
  /\ svcPc = "idle"
  /\ svcThrown = <<>>
  /\ transportCalls = 0

InitErrorVars ==
  /\ caught = NetworkFailure
  /\ handled = <<>>
  /\ handledTwice = <<>>
  /\ retryable = <<>>

InitHealthVars ==
  /\ hcPc = "idle"
  /\ hcOutcome = <<>>
  /\ hcResult = <<>>
  /\ cmPc = "idle"
  /\ cmCount = 0
  /\ cmResults = <<>>
  /\ cmReturn = <<>>
  /\ cmStarted = 0

InitModelVars ==
  /\ msPc = "idle"
  /\ msModelId = "none"
  /\ msOutcome = <<>>
  /\ msResult = <<>>

InitChunkVars ==
  /\ givenChunk = [isNull |-> TRUE, id |-> "null", hasChoices |-> FALSE, choices |-> <<>>]
  /\ extracted = <<>>
  /\ complete = <<>>

\* A chat as the storage layer sees it: its id and a revision standing for
\* everything else (title, messages, updatedAt).
StoredChat(id, rev) == [id |-> id, rev |-> rev]

\* The provider after loadInitialData: two stored chats, the first active.
InitStorageVars ==
  /\ persisted = <<StoredChat("c1", 0), StoredChat("c2", 0)>>
  /\ persistedActiveId = "c1"
  /\ storageQueue = <<>>
  /\ storeOps = <<>>
  /\ provActiveChat = <<StoredChat("c1", 0)>>
  /\ provChats = <<StoredChat("c1", 0), StoredChat("c2", 0)>>
  /\ deletedIds = {}

\* The module after loading: DEFAULT_RETRY_CONFIG is the one object on the
\* heap and no client has been made.
InitInstanceVars ==
  /\ heap = <<DEFAULT_RETRY_CONFIG>>
  /\ instances = <<>>
  /\ lastSet = <<>>

\* The retry policies a caller sets with setRetryConfig: the default delays,
\* a policy whose second wait reaches the cap, and one without backoff, each
\* with 0..MaxRetriesBound retries.
RetryPolicies ==
  { [p EXCEPT !.maxRetries = n] :
      n \in 0..MaxRetriesBound,
      p \in { DEFAULT_RETRY_CONFIG,
               [DEFAULT_RETRY_CONFIG EXCEPT !.initialDelayMs = 2000, !.maxDelayMs = 3000],
               [DEFAULT_RETRY_CONFIG EXCEPT !.backoffMultiplier = 1] } }

\* A client made by new LMStudioClient(baseUrl) whose retry policy has been set
\* with setRetryConfig before the call.
InitClient ==
  /\ retryConfig \in RetryPolicies
  /\ config = NewConfig(<<"http://a:1234">>, DEFAULT_TIMEOUT)
  /\ InitClientVars
  /\ InitStreamVars
  /\ InitStorageVars
  /\ InitInstanceVars
  /\ InitHealthVars
  /\ InitModelVars
  /\ InitChunkVars
  /\ InitChatVars
  /\ InitServiceVars
  /\ InitErrorVars

NextClient ==
  \/ \E sig \in {"none", "armed", "aborted"} : RequestStart(sig)
  \/ Cancel
  \/ \E k \in 0..(MaxRetriesBound + 1) : TimerFire(k)
  \/ \E s \in Statuses : FetchResolve(s)
  \/ \E e \in PlatformErrors : FetchReject(e)
  \/ \E b \in ErrorBodies : TextResolve(b)
  \/ JsonResolve
  \/ \E e \in {AbortErrorValue, SyntaxFailure} : BodyReject(e)
  \/ SleepDone

SpecClient == InitClient /\ [][NextClient]_vars

\* setBaseUrl, setTimeout and setRetryConfig, callable at any time (the
\* model allows MaxSetterCalls calls in a run).
setBaseUrl(baseUrl) ==
  /\ setterCalls < MaxSetterCalls
  /\ setterCalls' = setterCalls + 1
  /\ config' = [config EXCEPT !.baseUrl = RemoveTrailingSlash(baseUrl)]
  /\ UNCHANGED <<retryConfig, reqPc, attempt, lastError, signal, combined, abortedBy,
                 timers, respStatus, thrown, netAttempts, outcomes, cancelPc, cancelNet,
                 url, started, armed, errors, delays>>
  /\ UNCHANGED exceptClient

setTimeout(timeout) ==
  /\ setterCalls < MaxSetterCalls
  /\ setterCalls' = setterCalls + 1
  /\ config' = [config EXCEPT !.timeout = timeout]
  /\ UNCHANGED <<retryConfig, reqPc, attempt, lastError, signal, combined, abortedBy,
                 timers, respStatus, thrown, netAttempts, outcomes, cancelPc, cancelNet,
                 url, started, armed, errors, delays>>
  /\ UNCHANGED exceptClient

\* { ...this.retryConfig, ...retryConfig } for a partial policy
setRetryConfig(partial) ==
  /\ setterCalls < MaxSetterCalls
  /\ setterCalls' = setterCalls + 1
  /\ retryConfig' = [f \in DOMAIN retryConfig |->
                       IF f \in DOMAIN partial THEN partial[f] ELSE retryConfig[f]]
  /\ UNCHANGED <<config, reqPc, attempt, lastError, signal, combined, abortedBy,
                 timers, respStatus, thrown, netAttempts, outcomes, cancelPc, cancelNet,
                 url, started, armed, errors, delays>>
  /\ UNCHANGED exceptClient

\* The partial policies the model passes to setRetryConfig.
PartialPolicies ==
  { [maxRetries |-> n] : n \in 0..MaxRetriesBound }
    \cup { [initialDelayMs |-> 4000, backoffMultiplier |-> 1] }

\* A client made by new LMStudioClient(baseUrl), with the default policy.
InitConfigured ==
  /\ retryConfig = [DEFAULT_RETRY_CONFIG EXCEPT !.maxRetries = 1]
  /\ config = NewConfig(<<"http://a:1234">>, DEFAULT_TIMEOUT)
  /\ InitClientVars
  /\ InitStreamVars
  /\ InitStorageVars
  /\ InitInstanceVars
  /\ InitHealthVars
  /\ InitModelVars
  /\ InitChunkVars
  /\ InitChatVars
  /\ InitServiceVars
  /\ InitErrorVars

\* The client with its setters called between and during the steps of a call.
NextConfigured ==
  \/ NextClient
  \/ \E b \in BaseUrls : setBaseUrl(b)
  \/ \E t \in {DEFAULT_TIMEOUT, 5000} : setTimeout(t)
  \/ \E partial \in PartialPolicies : setRetryConfig(partial)

SpecConfigured == InitConfigured /\ [][NextConfigured]_vars

(***************************************************************************)
(* SSE STREAM PARSER (streamParser.ts)                                     *)
(* Text is a sequence of tokens; a token is one character (":", " ", "\n",  *)
(* "{") or a run of characters no operation of the parser looks inside and *)
(* no read batch cuts ("data", "id", "A}").  "A}", "B}" and "E}" stand for *)
(* the rest of the text of a JSON object (see JSONParse).                  *)
(***************************************************************************)
IsSpace(c) == c \in {" ", "\t", "\r", "\n"}

RECURSIVE TrimStart(_)
TrimStart(s) == IF s # <<>> /\ IsSpace(Head(s)) THEN TrimStart(Tail(s)) ELSE s

RECURSIVE TrimEnd(_)
TrimEnd(s) ==
  IF s # <<>> /\ IsSpace(s[Len(s)]) THEN TrimEnd(SubSeq(s, 1, Len(s) - 1)) ELSE s

\* String.prototype.trim
Trim(s) == TrimEnd(TrimStart(s))

\* String.prototype.startsWith
StartsWith(s, prefix) ==
  Len(s) >= Len(prefix) /\ SubSeq(s, 1, Len(prefix)) = prefix

\* String.prototype.indexOf for one character: 0-based, -1 when absent
RECURSIVE IndexFrom(_, _, _)
IndexFrom(s, c, i) ==
  IF i > Len(s) THEN 0 - 1
  ELSE IF s[i] = c THEN i - 1
  ELSE IndexFrom(s, c, i + 1)

IndexOf(s, c) == IndexFrom(s, c, 1)

\* s.slice(from) and s.slice(0, to), 0-based as in JavaScript
SliceFrom(s, from) == SubSeq(s, from + 1, Len(s))
SliceTo(s, to) == SubSeq(s, 1, to)

\* s.split('\n')
RECURSIVE Split(_)
Split(s) ==
  LET i == IndexOf(s, "\n") IN
  IF i < 0 THEN <<s>> ELSE <<SliceTo(s, i)>> \o Split(SliceFrom(s, i + 1))

DataPrefix == <<"data", ":", " ">>
DataType == <<"data">>
DoneMarker == <<"[DONE", "]">>

NoLine == [none |-> TRUE, type |-> <<>>, data |-> <<>>]

parseSSELine(line) ==
  IF Trim(line) = <<>> THEN NoLine
  ELSE IF StartsWith(line, DataPrefix)
    THEN [none |-> FALSE, type |-> DataType,
          data |-> Trim(SliceFrom(line, Len(DataPrefix)))]
  ELSE LET colonIndex == IndexOf(line, ":") IN
    IF colonIndex > 0
      THEN [none |-> FALSE, type |-> Trim(SliceTo(line, colonIndex)),
            data |-> Trim(SliceFrom(line, colonIndex + 1))]
      ELSE NoLine

\* Stream chunks.  A chunk is what JSON.parse returns: null, or an object
\* whose choices member is absent or a list of choices; a choice has a delta
\* (absent, or with content absent or a string) and a finish_reason ("absent",
\* "null" or a reason).
Choice(hasDelta, hasContent, content, finish) ==
  [hasDelta |-> hasDelta, hasContent |-> hasContent, content |-> content,
   finish_reason |-> finish]

Chunk(id, hasChoices, choices) ==
  [isNull |-> FALSE, id |-> id, hasChoices |-> hasChoices, choices |-> choices]

NullChunk == [isNull |-> TRUE, id |-> "null", hasChoices |-> FALSE, choices |-> <<>>]
ChunkA == Chunk("A", TRUE, <<Choice(TRUE, TRUE, "Hi", "null")>>)
ChunkB == Chunk("B", TRUE, <<Choice(TRUE, TRUE, "!", "stop")>>)
ChunkE == Chunk("E", FALSE, <<>>)

\* JSON.parse over the texts of the model; every other text is a SyntaxError.
JSONTexts ==
  { <<"{", "A}">>, <<"{", "B}">>, <<"{", "E}">>, <<"null">> }

JSONValid(text) == text \in JSONTexts

JSONParse(text) ==
  CASE text = <<"{", "A}">> -> ChunkA
    [] text = <<"{", "B}">> -> ChunkB
    [] text = <<"{", "E}">> -> ChunkE
    [] text = <<"null">> -> NullChunk

\* splitBuffer without keeping the incomplete last line for the next batch.
splitBuffer_DropRest(text) ==
  LET parts == Split(text) IN
  [lines |-> SubSeq(parts, 1, Len(parts) - 1), rest |-> <<>>]

\* buffer.split('\n') and lines.pop() || ''
splitBuffer(text) ==
  LET parts == Split(text) IN
  [lines |-> SubSeq(parts, 1, Len(parts) - 1), rest |-> parts[Len(parts)]]

\* What the body of the for loop over the complete lines does with a parsed
\* line: "continue" (not a data line, or JSON.parse failed and was logged),
\* "return" (the [DONE] marker) or "yield".
lineDisposition_AbortOnBadJson(parsed) ==
  IF parsed.none \/ parsed.type # DataType THEN "continue"
  ELSE IF parsed.data = DoneMarker THEN "return"
  ELSE IF JSONValid(parsed.data) THEN "yield"
  ELSE "return"

lineDisposition_IgnoreDone(parsed) ==
  IF parsed.none \/ parsed.type # DataType THEN "continue"
  ELSE IF JSONValid(parsed.data) THEN "yield"
  ELSE "continue"

lineDisposition(parsed) ==
  IF parsed.none \/ parsed.type # DataType THEN "continue"
  ELSE IF parsed.data = DoneMarker THEN "return"
  ELSE IF JSONValid(parsed.data) THEN "yield"
  ELSE "continue"

\* The for loop over the complete lines of a batch, from the chunks yielded
\* so far: the chunks it yields, in order, and whether it ended in the return
\* of the [DONE] marker.
RECURSIVE linesLoop(_, _)
linesLoop(lines, chunks) ==
  IF lines = <<>> THEN [chunks |-> chunks, done |-> FALSE]
  ELSE CASE lineDisposition(parseSSELine(Head(lines))) = "return" ->
              [chunks |-> chunks, done |-> TRUE]
         [] lineDisposition(parseSSELine(Head(lines))) = "yield" ->
              linesLoop(Tail(lines),
                        Append(chunks, JSONParse(parseSSELine(Head(lines)).data)))
         [] OTHER -> linesLoop(Tail(lines), chunks)

linesYield(lines) == linesLoop(lines, <<>>)

\* The code after the read loop discarding the rest of the buffer.
flushYield_Discard(rest) == <<>>

\* The code after the read loop: the rest of the buffer is parsed as one line.
flushYield(rest) ==
  IF Trim(rest) = <<>> THEN <<>>
  ELSE LET parsed == parseSSELine(rest) IN
    IF ~parsed.none /\ parsed.type = DataType /\ parsed.data # DoneMarker
         /\ JSONValid(parsed.data)
      THEN <<JSONParse(parsed.data)>>
      ELSE <<>>

\* The catch block of parseStreamResponse for a value reader.read() rejected
\* with: <<>> for "return" (the stream was cancelled), else <<e>> for "throw e".
catchReadError_WrapEverything(error) ==
  <<StreamError("Error parsing stream", <<error>>)>>

catchReadError(error) ==
  IF error.isError /\ error.name = "AbortError" THEN <<>>
  ELSE <<StreamError("Error parsing stream", <<error>>)>>

\* The finally block of parseStreamResponse: reader.releaseLock().  The value
\* is the reader's lock after the generator has finished through `exit`
\* ("eof", "done", "abort", "error", or "closed" by the consumer).
finallyReleaseLock_NotOnReturn(exit) == exit \in {"done", "abort"}

finallyReleaseLock(exit) == FALSE

extractContentFromChunk(chunk) ==
  IF chunk.hasChoices /\ Len(chunk.choices) > 0
    THEN LET choice == chunk.choices[1] IN
      IF choice.hasDelta /\ choice.hasContent /\ choice.content # ""
        THEN choice.content ELSE ""
    ELSE ""

\* isStreamComplete looking at the last choice.
isStreamComplete_LastChoice(chunk) ==
  IF chunk.hasChoices /\ Len(chunk.choices) > 0
    THEN chunk.choices[Len(chunk.choices)].finish_reason \notin {"null", "absent"}
    ELSE FALSE

isStreamComplete(chunk) ==
  IF chunk.hasChoices /\ Len(chunk.choices) > 0
    THEN chunk.choices[1].finish_reason \notin {"null", "absent"}
    ELSE FALSE

getFinishReason(chunk) ==
  IF chunk.hasChoices /\ Len(chunk.choices) > 0
    THEN chunk.choices[1].finish_reason
    ELSE "null"

\* A call of one of the caller's callbacks.
Call(cb, arg) == [cb |-> cb, arg |-> arg]

\* The thrown TypeError of reading a property of null.
NullDereference == NativeError("TypeError", "Cannot read properties of null")

\* The state of processStream (with the callbacks sendMessageStream passes,
\* which forward to the caller's): the calls made, fullContent, finishReason,
\* the chunks pushed, and whether the loop body threw.
LoopState(cbs, full, finish, got) ==
  [cbs |-> cbs, full |-> full, finish |-> finish, got |-> got, threw |-> FALSE]

\* The loop body with `fullContent = content` in place of `+=`.
RECURSIVE forAwait_Overwrite(_, _)
forAwait_Overwrite(st, chunks) ==
  IF chunks = <<>> THEN st
  ELSE LET chunk == Head(chunks)
           st1 == [st EXCEPT !.cbs = Append(@, Call("onChunk", chunk.id)),
                             !.got = Append(@, chunk)] IN
    IF chunk.isNull THEN [st1 EXCEPT !.threw = TRUE]
    ELSE LET content == extractContentFromChunk(chunk)
             st2 == IF content # ""
                      THEN [st1 EXCEPT !.full = content,
                                       !.cbs = Append(@, Call("onContent", content))]
                      ELSE st1
             st3 == IF isStreamComplete(chunk)
                      THEN [st2 EXCEPT !.finish = getFinishReason(chunk)]
                      ELSE st2 IN
         forAwait_Overwrite(st3, Tail(chunks))

\* The body of `for await (const chunk of parseStreamResponse(response))` for
\* the chunks the generator yields until its next await.
RECURSIVE forAwait(_, _)
forAwait(st, chunks) ==
  IF chunks = <<>> THEN st
  ELSE LET chunk == Head(chunks)
           st1 == [st EXCEPT !.cbs = Append(@, Call("onChunk", chunk.id)),
                             !.got = Append(@, chunk)] IN
    IF chunk.isNull THEN [st1 EXCEPT !.threw = TRUE]
    ELSE LET content == extractContentFromChunk(chunk)
             st2 == IF content # ""
                      THEN [st1 EXCEPT !.full = @ \o content,
                                       !.cbs = Append(@, Call("onContent", content))]
                      ELSE st1
             st3 == IF isStreamComplete(chunk)
                      THEN [st2 EXCEPT !.finish = getFinishReason(chunk)]
                      ELSE st2 IN
         forAwait(st3, Tail(chunks))

\* The end of processStream: onComplete after the loop, onError in the catch
\* block.  ending is "complete" or "error"; the value is the calls made.
processStreamEnd_AlwaysComplete(cbs, ending, full, err) ==
  IF ending = "complete" THEN Append(cbs, Call("onComplete", full))
  ELSE Append(Append(cbs, Call("onComplete", full)), Call("onError", err.name))

processStreamEnd(cbs, ending, full, err) ==
  IF ending = "complete" THEN Append(cbs, Call("onComplete", full))
  ELSE Append(cbs, Call("onError", err.name))

(***************************************************************************)
(* CHAT COMPLETION SERVICE (chatService.ts): sendMessageStream over        *)
(* LMStudioClient.postStream, processStream and parseStreamResponse.       *)
(***************************************************************************)
\* The lines a modelled server sends.
LineSet ==
  { DataPrefix \o <<"{", "A}">>,       \* a chunk with content
    DataPrefix \o <<"{", "B}">>,       \* the chunk with the finish_reason
    DataPrefix \o <<"{">>,             \* a data line that is not JSON
    DataPrefix \o DoneMarker,          \* the end marker
    <<>>,                              \* the blank line between events
    <<"id", ":", " ", "7">>,           \* another SSE field
    <<"data", ":", "{", "E}">>,        \* data without the space
    DataPrefix \o <<"null">> }         \* JSON null

RECURSIVE Join(_, _)
Join(lines, lastTerminated) ==
  IF lines = <<>> THEN <<>>
  ELSE IF Len(lines) = 1 /\ ~lastTerminated THEN Head(lines)
  ELSE Head(lines) \o <<"\n">> \o Join(Tail(lines), lastTerminated)

\* Response bodies: up to MaxLines lines, the last one with or without its
\* newline.
Payloads ==
  { Join(ls, t) : ls \in UNION { [1..n -> LineSet] : n \in 0..MaxLines },
                  t \in BOOLEAN }

\* response.body: <<>> for null, else <<text>>.
ResponseBodies == {<<>>} \cup {<<p>> : p \in Payloads}

StreamInFlight == smsPc \in {"hsFetch", "hsText", "reading"}

\* sendMessageStream(messages, model, options) for a request that passes
\* validateRequest: postStream arms its timer, merges the signals and calls
\* fetch.
StreamStart(sig) ==
  /\ smsPc = "idle"
  /\ strSignal' = sig
  /\ strTimer' = TRUE
  /\ strCombined' = combineAbortSignals(sig)
  /\ strAbortedBy' = IF combineAbortSignals(sig) THEN "user" ELSE "none"
  /\ strNet' = IF combineAbortSignals(sig) THEN strNet ELSE strNet + 1
  /\ cbAtCancel' = IF sig = "aborted" THEN <<0>> ELSE <<>>
  /\ smsPc' = "hsFetch"
  /\ UNCHANGED <<hsStatus, payload, pos, buffer, readerLocked, genEnd, genThrown,
                 yielded, fullContent, finishReason, callbacks, smsThrown,
                 readFailure, splitLine>>
  /\ UNCHANGED exceptStream

\* The caller aborts options.signal while the call is in flight.
StreamCancel ==
  /\ StreamInFlight
  /\ strSignal = "armed"
  /\ strSignal' = "aborted"
  /\ cbAtCancel' = <<Len(callbacks)>>
  /\ IF ~strCombined
       THEN strCombined' = TRUE /\ strAbortedBy' = "user"
       ELSE UNCHANGED <<strCombined, strAbortedBy>>
  /\ UNCHANGED <<smsPc, strTimer, hsStatus, payload, pos, buffer, readerLocked, genEnd,
                 genThrown, yielded, fullContent, finishReason, callbacks, smsThrown,
                 strNet, readFailure, splitLine>>
  /\ UNCHANGED exceptStream

\* The STREAM_TIMEOUT timer fires: timeoutController.abort().
StreamTimerFire ==
  /\ strTimer
  /\ strTimer' = FALSE
  /\ IF ~strCombined
       THEN strCombined' = TRUE /\ strAbortedBy' = "timeout"
       ELSE UNCHANGED <<strCombined, strAbortedBy>>
  /\ UNCHANGED <<smsPc, strSignal, hsStatus, payload, pos, buffer, readerLocked, genEnd,
                 genThrown, yielded, fullContent, finishReason, callbacks, smsThrown,
                 strNet, readFailure, splitLine, cbAtCancel>>
  /\ UNCHANGED exceptStream

\* postStream with the retry loop of request(): a retryable handshake failure
\* issues the fetch again.
HandshakeThrow_RetryRetryable(error) ==
  /\ IF isRetryableError(handleFetchError(error)) /\ strNet < 1 + retryConfig.maxRetries
       THEN /\ strTimer' = TRUE
            /\ smsPc' = "hsFetch"
            /\ strNet' = strNet + 1
            /\ UNCHANGED smsThrown
       ELSE /\ strTimer' = FALSE
            /\ smsPc' = "threw"
            /\ smsThrown' = <<handleFetchError(error)>>
            /\ UNCHANGED strNet
  /\ UNCHANGED <<strSignal, strCombined, strAbortedBy, payload, pos, buffer,
                 readerLocked, genEnd, genThrown, yielded, fullContent, finishReason,
                 callbacks, readFailure, splitLine, cbAtCancel>>
  /\ UNCHANGED exceptStream

\* postStream throws handleFetchError(error) from its catch block (after
\* clearTimeout); sendMessageStream rethrows it, an APIError, unchanged.
HandshakeThrow(error) ==
  /\ strTimer' = FALSE
  /\ smsPc' = "threw"
  /\ smsThrown' = <<handleFetchError(error)>>
  /\ UNCHANGED <<strSignal, strCombined, strAbortedBy, payload, pos, buffer,
                 readerLocked, genEnd, genThrown, yielded, fullContent, finishReason,
                 callbacks, strNet, readFailure, splitLine, cbAtCancel>>
  /\ UNCHANGED exceptStream

\* await fetch rejects in postStream.
HandshakeReject(error) ==
  /\ smsPc = "hsFetch"
  /\ IF strCombined THEN error = AbortErrorValue ELSE error # AbortErrorValue
  /\ HandshakeThrow(error)
  /\ UNCHANGED hsStatus

\* await fetch resolves with a non-2xx response: postStream reads its text.
HandshakeErrorStatus(status) ==
  /\ smsPc = "hsFetch"
  /\ ~strCombined
  /\ ~ResponseOk(status)
  /\ hsStatus' = status
  /\ strTimer' = FALSE
  /\ smsPc' = "hsText"
  /\ UNCHANGED <<strSignal, strCombined, strAbortedBy, payload, pos, buffer,
                 readerLocked, genEnd, genThrown, yielded, fullContent, finishReason,
                 callbacks, smsThrown, strNet, readFailure, splitLine, cbAtCancel>>
  /\ UNCHANGED exceptStream

\* await response.text() settles in postStream: the ServerError, or the
\* AbortError of a body read after the signal fired.
HandshakeText(body) ==
  /\ smsPc = "hsText"
  /\ \/ /\ body \in ErrorBodies
        /\ HandshakeThrow(ServerError(ServerErrorMessage(hsStatus, body), hsStatus))
     \/ /\ body = "aborted"
        /\ strCombined
        /\ HandshakeThrow(AbortErrorValue)
  /\ UNCHANGED hsStatus

\* processStream ends after the generator finished through `exit` with loop
\* state st: the generator's finally block, then onComplete and the return of
\* sendMessageStream, or onError and the rethrow.  err is <<>> or the thrown
\* value; a value that is no APIError is wrapped by sendMessageStream.
StreamFinish(st, exit, err) ==
  /\ readerLocked' = finallyReleaseLock(exit)
  /\ yielded' = st.got
  /\ fullContent' = st.full
  /\ finishReason' = st.finish
  /\ genEnd' = CASE exit \in {"eof", "done", "abort"} -> "returned"
                 [] exit = "error" -> "threw"
                 [] exit = "closed" -> "closed"
  /\ genThrown' = IF exit = "error" THEN err ELSE <<>>
  /\ IF err = <<>>
       THEN /\ callbacks' = processStreamEnd(st.cbs, "complete", st.full, NullDereference)
            /\ smsPc' = "returned"
            /\ UNCHANGED smsThrown
       ELSE /\ callbacks' = processStreamEnd(st.cbs, "error", st.full, err[1])
            /\ smsPc' = "threw"
            /\ smsThrown' = IF err[1].api THEN err
                            ELSE <<APIError("Failed to send streaming message",
                                            "SEND_STREAM_ERROR", NoStatus, err)>>

CurrentLoopState == LoopState(callbacks, fullContent, finishReason, yielded)

\* await fetch resolves with a 2xx response: postStream returns it and
\* processStream pulls the generator, which throws for a response without a
\* body and otherwise takes the reader and awaits the first read.
HandshakeOk(status) ==
  /\ smsPc = "hsFetch"
  /\ ~strCombined
  /\ ResponseOk(status)
  /\ hsStatus' = status
  /\ strTimer' = FALSE
  /\ \E body \in ResponseBodies :
       IF body = <<>>
         THEN /\ genEnd' = "threw"
              /\ genThrown' = <<StreamError("Response body is null", <<>>)>>
              /\ callbacks' = processStreamEnd(callbacks, "error", fullContent,
                                               StreamError("Response body is null", <<>>))
              /\ smsPc' = "threw"
              /\ smsThrown' = <<StreamError("Response body is null", <<>>)>>
              /\ UNCHANGED <<payload, readerLocked>>
         ELSE /\ payload' = body[1]
              /\ readerLocked' = TRUE
              /\ genEnd' = "active"
              /\ smsPc' = "reading"
              /\ UNCHANGED <<genThrown, callbacks, smsThrown>>
  /\ UNCHANGED <<strSignal, strCombined, strAbortedBy, pos, buffer, yielded,
                 fullContent, finishReason, strNet, readFailure, splitLine, cbAtCancel>>
  /\ UNCHANGED exceptStream

\* await reader.read() resolves with the next n characters of the body: the
\* buffer is split, the complete lines are processed and their chunks go
\* through the loop body of processStream, up to the next read or the end.
ReadChunk ==
  /\ smsPc = "reading"
  /\ strSignal # "aborted"
  /\ \E n \in 1..(Len(payload) - pos) :
     \E sp \in {splitBuffer(buffer \o SubSeq(payload, pos + 1, pos + n))} :
     \E r \in {linesYield(sp.lines)} :
     \E st \in {forAwait(CurrentLoopState, r.chunks)} :
     /\ pos' = pos + n
     /\ buffer' = sp.rest
     /\ splitLine' = (splitLine \/ sp.rest # <<>>)
     /\ IF st.threw THEN StreamFinish(st, "closed", <<NullDereference>>)
        ELSE IF r.done THEN StreamFinish(st, "done", <<>>)
        ELSE /\ yielded' = st.got
             /\ fullContent' = st.full
             /\ finishReason' = st.finish
             /\ callbacks' = st.cbs
             /\ UNCHANGED <<readerLocked, genEnd, genThrown, smsPc, smsThrown>>
  /\ UNCHANGED <<strSignal, strCombined, strAbortedBy, strTimer, hsStatus, payload,
                 strNet, readFailure, cbAtCancel>>
  /\ UNCHANGED exceptStream

\* await reader.read() resolves with done: the rest of the buffer is flushed.
ReadDone ==
  /\ smsPc = "reading"
  /\ strSignal # "aborted"
  /\ pos = Len(payload)
  /\ \E st \in {forAwait(CurrentLoopState, flushYield(buffer))} :
     IF st.threw THEN StreamFinish(st, "closed", <<NullDereference>>)
     ELSE StreamFinish(st, "eof", <<>>)
  /\ UNCHANGED <<strSignal, strCombined, strAbortedBy, strTimer, hsStatus, payload,
                 pos, buffer, strNet, readFailure, splitLine, cbAtCancel>>
  /\ UNCHANGED exceptStream

\* await reader.read() rejects: with an AbortError once the signal has fired
\* (the body is errored and its queue discarded), with a transport failure
\* otherwise.
ReadFail(error) ==
  /\ smsPc = "reading"
  /\ IF strSignal = "aborted" THEN error = AbortErrorValue ELSE error # AbortErrorValue
  /\ readFailure' = <<error>>
  /\ IF catchReadError(error) = <<>>
       THEN StreamFinish(CurrentLoopState, "abort", <<>>)
       ELSE StreamFinish(CurrentLoopState, "error", catchReadError(error))
  /\ UNCHANGED <<strSignal, strCombined, strAbortedBy, strTimer, hsStatus, payload,
                 pos, buffer, strNet, splitLine, cbAtCancel>>
  /\ UNCHANGED exceptStream

InitStream ==
  /\ retryConfig = DEFAULT_RETRY_CONFIG
  /\ config = NewConfig(<<"http://a:1234">>, DEFAULT_TIMEOUT)
  /\ InitClientVars
  /\ InitStreamVars
  /\ InitStorageVars
  /\ InitInstanceVars
  /\ InitHealthVars
  /\ InitModelVars
  /\ InitChunkVars
  /\ InitChatVars
  /\ InitServiceVars
  /\ InitErrorVars

NextStream ==
  \/ \E sig \in {"none", "armed", "aborted"} : StreamStart(sig)
  \/ StreamCancel
  \/ StreamTimerFire
  \/ \E e \in PlatformErrors : HandshakeReject(e)
  \/ \E s \in Statuses : HandshakeErrorStatus(s)
  \/ \E b \in ErrorBodies \cup {"aborted"} : HandshakeText(b)
  \/ \E s \in Statuses : HandshakeOk(s)
  \/ ReadChunk
  \/ ReadDone
  \/ \E e \in {AbortErrorValue, NetworkFailure} : ReadFail(e)

SpecStream == InitStream /\ [][NextStream]_vars

(***************************************************************************)
(* REQUEST VALIDATION (chatService.ts, validation.ts): one call of         *)
(* sendMessage, sendMessageStream or streamMessage on a request.           *)
(* A message content is a text of `core` characters with `pad` whitespace  *)
(* characters around it: its length is core + pad, trim() leaves core.     *)
(***************************************************************************)
\* UI_CONFIG.MESSAGE_MAX_LENGTH
MESSAGE_MAX_LENGTH == 10000

Content(core, pad) == [core |-> core, pad |-> pad]

\* content.length and content.trim().length
Length(content) == content.core + content.pad
TrimmedLength(content) == content.core

\* The contents of the model: empty, blank, short, of the maximal length with
\* whitespace around it, one character longer than the maximum.
Contents ==
  { Content(0, 0), Content(0, 3), Content(5, 0), Content(MESSAGE_MAX_LENGTH, 2),
    Content(MESSAGE_MAX_LENGTH + 1, 0) }

Message(role, content) == [role |-> role, content |-> content]

\* formatMessages: { role, content } of every message
formatMessages(messages) ==
  [i \in DOMAIN messages |-> Message(messages[i].role, messages[i].content)]

\* isValidMessage(message)
isValidMessage(message) ==
  IF Length(message) = 0 \/ TrimmedLength(message) = 0
    THEN [valid |-> FALSE, error |-> "Message cannot be empty"]
  ELSE IF TrimmedLength(message) > MESSAGE_MAX_LENGTH
    THEN [valid |-> FALSE, error |-> "Message must be 10000 characters or less"]
  ELSE [valid |-> TRUE, error |-> ""]

\* validateRequest without the check of the last message.
validateRequest_NoContentCheck(request) ==
  IF request.model = "" THEN <<ValidationError("Model is required", "model")>>
  ELSE IF request.messages = <<>>
    THEN <<ValidationError("At least one message is required", "messages")>>
  ELSE <<>>

\* validateRequest(request): <<>> when it returns, <<e>> when it throws e.
validateRequest(request) ==
  IF request.model = "" THEN <<ValidationError("Model is required", "model")>>
  ELSE IF request.messages = <<>>
    THEN <<ValidationError("At least one message is required", "messages")>>
  ELSE IF ~isValidMessage(request.messages[Len(request.messages)].content).valid
    THEN <<ValidationError(
             isValidMessage(request.messages[Len(request.messages)].content).error,
             "messages")>>
  ELSE <<>>

\* The ChatCompletionRequest the three operations build.
ChatCompletionRequest(messages, model, stream) ==
  [model |-> model, messages |-> formatMessages(messages), stream |-> stream]

\* The code of an operation from validateRequest to its first await: the
\* ValidationError is thrown, or the transport is called.
ValidateAndDispatch(stream) ==
  LET request == ChatCompletionRequest(svcMessages, svcModel, stream) IN
  IF validateRequest(request) # <<>>
    THEN /\ svcPc' = "threw"
         /\ svcThrown' = validateRequest(request)
         /\ UNCHANGED transportCalls
    ELSE /\ svcPc' = "sent"
         /\ transportCalls' = transportCalls + 1
         /\ UNCHANGED svcThrown

\* sendMessage(messages, model): up to the await of client.post
CallSendMessage ==
  /\ svcPc = "idle"
  /\ svcOp' = "sendMessage"
  /\ ValidateAndDispatch(FALSE)
  /\ UNCHANGED <<svcMessages, svcModel>>
  /\ UNCHANGED exceptService

\* sendMessageStream(messages, model, options): up to the await of postStream
CallSendMessageStream ==
  /\ svcPc = "idle"
  /\ svcOp' = "sendMessageStream"
  /\ ValidateAndDispatch(TRUE)
  /\ UNCHANGED <<svcMessages, svcModel>>
  /\ UNCHANGED exceptService

\* streamMessage(messages, model): the call of an async generator function
\* runs none of its body.
CallStreamMessage ==
  /\ svcPc = "idle"
  /\ svcOp' = "streamMessage"
  /\ svcPc' = "created"
  /\ UNCHANGED <<svcMessages, svcModel, svcThrown, transportCalls>>
  /\ UNCHANGED exceptService

\* The first next() of the generator of streamMessage: its body runs up to
\* the await of postStream.
PullStreamMessage ==
  /\ svcPc = "created"
  /\ ValidateAndDispatch(TRUE)
  /\ UNCHANGED <<svcOp, svcMessages, svcModel>>
  /\ UNCHANGED exceptService

\* The transport call settles and the operation ends: with its result, with
\* the NO_RESPONSE error of sendMessage for a response without choices, or
\* with the typed error the client raised.
TransportSettles(how) ==
  /\ svcPc = "sent"
  /\ how = "noChoices" => svcOp = "sendMessage"
  /\ svcPc' = IF how = "ok" THEN "returned" ELSE "threw"
  /\ svcThrown' = CASE how = "ok" -> <<>>
                     [] how = "noChoices" ->
                          <<APIError("No response from model", "NO_RESPONSE", NoStatus, <<>>)>>
                     [] how = "rejected" ->
                          <<handleFetchError(NetworkFailure)>>
  /\ UNCHANGED <<svcOp, svcMessages, svcModel, transportCalls>>
  /\ UNCHANGED exceptService

InitService ==
  /\ retryConfig = DEFAULT_RETRY_CONFIG
  /\ config = NewConfig(<<"http://a:1234">>, DEFAULT_TIMEOUT)
  /\ InitClientVars
  /\ InitStreamVars
  /\ InitStorageVars
  /\ InitInstanceVars
  /\ InitHealthVars
  /\ InitModelVars
  /\ InitChunkVars
  /\ InitChatVars
  /\ InitErrorVars
  /\ svcOp = "none"
  /\ svcModel \in {"", "local-model"}
  /\ svcMessages \in UNION { [1..n -> {Message("user", c) : c \in Contents}] : n \in 0..2 }
  /\ svcPc = "idle"
  /\ svcThrown = <<>>
  /\ transportCalls = 0

NextService ==
  \/ CallSendMessage
  \/ CallSendMessageStream
  \/ CallStreamMessage
  \/ PullStreamMessage
  \/ \E how \in {"ok", "noChoices", "rejected"} : TransportSettles(how)

SpecService == InitService /\ [][NextService]_vars

(***************************************************************************)
(* CLAIMS ABOUT REQUEST VALIDATION                                         *)
(***************************************************************************)
\* The request is one the operations must refuse: the model is empty, there
\* is no message, or the content of the last message is empty after trimming
\* or, trimmed, longer than MESSAGE_MAX_LENGTH.
Refused ==
  \/ svcModel = ""
  \/ svcMessages = <<>>
  \/ TrimmedLength(svcMessages[Len(svcMessages)].content) = 0
  \/ TrimmedLength(svcMessages[Len(svcMessages)].content) > MESSAGE_MAX_LENGTH

\* C16: on such a request sendMessage and sendMessageStream raise a validation
\* error at the call and streamMessage raises it when its generator is first
\* pulled; the transport is never called, so its call count stays unchanged.
\* A request that is not refused reaches the transport exactly once.
C16_ValidationBeforeNetwork ==
  /\ Refused =>
       /\ transportCalls = 0
       /\ svcPc \in {"idle", "created", "threw"}
       /\ svcPc = "created" => svcOp = "streamMessage"
       /\ svcPc = "threw" =>
            /\ svcThrown[1].cls = "ValidationError"
            /\ svcThrown[1].code = ErrorCodes.VALIDATION_ERROR
            /\ svcThrown[1].field = IF svcModel = "" THEN "model" ELSE "messages"
  /\ (~Refused /\ svcPc \in {"sent", "returned", "threw"}) => transportCalls = 1

\* The request as C16 words it: the content of the last message itself, not
\* its trimmed text, is compared with the maximum.
RefusedAsStated ==
  \/ svcModel = ""
  \/ svcMessages = <<>>
  \/ TrimmedLength(svcMessages[Len(svcMessages)].content) = 0
  \/ Length(svcMessages[Len(svcMessages)].content) > MESSAGE_MAX_LENGTH

\* C16 as stated: a request whose last content is longer than the maximum is
\* refused with a validation error and never reaches the transport.
C16_ValidationAsStated ==
  RefusedAsStated =>
    /\ transportCalls = 0
    /\ svcPc \in {"idle", "created", "threw"}
    /\ svcPc = "threw" => svcThrown[1].cls = "ValidationError"

\* C16 witness: a call with a model and two messages, the last one longer
\* than the maximum, has raised the validation error.
C16_Witness ==
  /\ svcPc = "threw"
  /\ svcModel # ""
  /\ Len(svcMessages) = 2
  /\ TrimmedLength(svcMessages[2].content) > MESSAGE_MAX_LENGTH
  /\ svcThrown[1].cls = "ValidationError"
  /\ transportCalls = 0

(***************************************************************************)
(* THE CHAT STATE (ChatContext.tsx) DRIVEN BY useStreamingChat.ts          *)
(* One conversation is active.  activeChat and chats hold it in the two    *)
(* React states of ChatProvider.  addMessage, updateStreamingMessage and   *)
(* setStreaming are functions of one render: they read the activeChat of   *)
(* that render, and one run of sendMessage keeps the functions of the      *)
(* render it was called in.                                                *)
(***************************************************************************)
\* A message; isStreaming is FALSE for an absent flag as well.
ChatMessage(role, content, streaming) ==
  [role |-> role, content |-> content, isStreaming |-> streaming]

\* The texts a user sends: a short one and one of 51 characters.
UserTexts == { Text(<<"hello">>, 5), Text(<<"long">>, maxLength + 1) }

\* The content deltas of a stream, one character each: the k-th delta of a
\* stream is the text k.
Delta(k) == k

\* The text made of the deltas received
Concat(deltas) == Text(deltas, Len(deltas))

\* generateChatTitle(firstMessage)
generateChatTitle(firstMessage) ==
  IF firstMessage.len <= maxLength
    THEN Title(firstMessage.body, firstMessage.len, FALSE)
    ELSE Title(firstMessage.body, maxLength, TRUE)

\* addMessage(message) of a render with active chat `chat`: the value it
\* passes to setActiveChat and to setChats.
addMessage(chat, message) ==
  <<Chat(IF chat.title = NewChatTitle /\ message.role = "user"
           THEN generateChatTitle(message.content) ELSE chat.title,
         Append(chat.messages, ChatMessage(message.role, message.content, FALSE)))>>

\* updateStreamingMessage(content) of a render with active chat `chat`: <<>>
\* when it returns early, else the value it sets.
updateStreamingMessage(chat, content) ==
  LET n == Len(chat.messages) IN
  IF n = 0 THEN <<>>
  ELSE IF chat.messages[n].role # "assistant" THEN <<>>
  ELSE <<[chat EXCEPT !.messages[n] = ChatMessage(@.role, content, TRUE)]>>

\* setStreaming(streaming) of a render with active chat `chat`: the chat it
\* sets, if any (setIsStreaming is part of the calling action).
setStreaming(chat, streaming) ==
  LET n == Len(chat.messages) IN
  IF ~streaming /\ n > 0 /\ chat.messages[n].isStreaming
    THEN <<[chat EXCEPT !.messages[n] = ChatMessage(@.role, @.content, FALSE)]>>
    ELSE <<>>

\* The state after the setActiveChat / setChats calls of one event handler,
\* in order: each call replaces the chat by the value it was given.
Commit(sets) ==
  /\ activeChat' = IF sets = <<>> THEN activeChat ELSE sets[Len(sets)]
  /\ chats' = IF sets = <<>> THEN chats ELSE sets[Len(sets)]

\* One run of useStreamingChat.sendMessage: where it is, the content sent,
\* the activeChat of the render it was called in, its fullContent (the deltas
\* received), its AbortController, the error it ended with (<<>> if none) and
\* the number of error snackbars it showed.
SendCall(pc, content, cap, full, sig) ==
  [pc |-> pc, content |-> content, cap |-> cap, full |-> full, signal |-> sig,
   error |-> <<>>, snackbars |-> 0]

\* The runs with the record of every finished run cleared: the model keeps
\* the history of a finished run until the next run starts or finishes.
Forget(runs) ==
  [k \in DOMAIN runs |->
     IF runs[k].pc = "finished"
       THEN [SendCall("finished", NoText, NewChat, <<>>, "armed") EXCEPT
               !.signal = runs[k].signal]
       ELSE runs[k]]

\* The catch block of sendMessage shows nothing for a cancelled send.
showsSnackbar_Always(apiError) == TRUE

\* apiError.code !== 'CANCELLED'
showsSnackbar(apiError) == apiError.code # ErrorCodes.CANCELLED

\* The finally block of sendMessage
Finally ==
  /\ isSending' = FALSE
  /\ abortControllerRef' = 0

\* ChatInput.handleSend -> HomeScreen.handleSendMessage -> sendMessage(content)
\* up to the await of sendMessageStream.  The input is disabled while
\* !canSend || isSending and passes on valid contents only; the screen is
\* shown only when connected with an active chat, so the two early returns of
\* sendMessage are not taken.
handleSend(content) ==
  /\ ~isSending
  /\ Len(calls) < MaxSends
  /\ isSending' = TRUE
  /\ abortControllerRef' = Len(calls) + 1
  /\ Commit(addMessage(activeChat, [role |-> "user", content |-> content])
            \o addMessage(activeChat, [role |-> "assistant", content |-> NoText])
            \o setStreaming(activeChat, TRUE))
  /\ isStreaming' = TRUE
  /\ calls' = Append(Forget(calls), SendCall("handshake", content, activeChat, <<>>, "armed"))
  /\ UNCHANGED exceptChat

\* await postStream resolves inside sendMessageStream: the body is read.
ChatStreamOpened(i) ==
  /\ calls[i].pc = "handshake"
  /\ calls[i].signal = "armed"
  /\ calls' = [calls EXCEPT ![i].pc = "reading"]
  /\ UNCHANGED <<activeChat, chats, isStreaming, isSending, abortControllerRef>>
  /\ UNCHANGED exceptChat

\* What sendMessageStream raises before any callback: the classified failure
\* of the handshake, the error of a non-2xx answer, or the CancellationError
\* of a handshake ended by the merged signal (the caller's or the timer's).
HandshakeErrors ==
  { handleFetchError(AbortErrorValue), handleFetchError(NetworkFailure),
    handleFetchError(PlatformTimeout), handleFetchError(SyntaxFailure),
    ServerError("HTTP 500", 500), APIError("HTTP 400", "HTTP_400", 400, <<>>) }

\* sendMessageStream rejects before any callback: the catch and finally
\* blocks.
ChatStreamRejected(i, error) ==
  /\ calls[i].pc = "handshake"
  /\ calls[i].signal = "aborted" => error = handleFetchError(AbortErrorValue)
  /\ calls' = [Forget(calls) EXCEPT ![i].pc = "finished", ![i].error = <<error>>,
                            ![i].snackbars = IF showsSnackbar(error) THEN @ + 1 ELSE @]
  /\ Commit(setStreaming(calls[i].cap, FALSE))
  /\ isStreaming' = FALSE
  /\ Finally
  /\ UNCHANGED exceptChat

\* options.onContent(chunk) for the next delta of the stream
onContent(i) ==
  LET chunk == Delta(Len(calls[i].full) + 1) IN
  /\ calls[i].pc = "reading"
  /\ calls[i].signal = "armed"
  /\ Len(calls[i].full) < MaxChunks
  /\ calls' = [calls EXCEPT ![i].full = Append(@, chunk)]
  /\ Commit(updateStreamingMessage(calls[i].cap, Concat(Append(calls[i].full, chunk))))
  /\ UNCHANGED <<isStreaming, isSending, abortControllerRef>>
  /\ UNCHANGED exceptChat

\* options.onComplete(content), the return of sendMessageStream and the
\* finally block.  The stream also ends this way when the signal was aborted
\* while the body was read.
onComplete(i) ==
  /\ calls[i].pc = "reading"
  /\ calls' = [Forget(calls) EXCEPT ![i].pc = "finished"]
  /\ Commit(updateStreamingMessage(calls[i].cap, Concat(calls[i].full))
            \o setStreaming(calls[i].cap, FALSE))
  /\ isStreaming' = FALSE
  /\ Finally
  /\ UNCHANGED exceptChat

\* What processStream hands to onError and rethrows: the StreamError of a
\* failed read, or the TypeError thrown in the loop body, which
\* sendMessageStream wraps.
StreamFailures ==
  { StreamError("Error parsing stream", <<NetworkFailure>>),
    APIError("Failed to send streaming message", "SEND_STREAM_ERROR", NoStatus,
             <<NullDereference>>) }

\* options.onError(err) with its snackbar, the rethrow, the catch and finally
\* blocks.
onError(i, error) ==
  /\ calls[i].pc = "reading"
  /\ calls[i].signal = "armed"
  /\ calls' = [Forget(calls) EXCEPT ![i].pc = "finished", ![i].error = <<error>>,
                            ![i].snackbars = IF showsSnackbar(error) THEN @ + 2 ELSE @ + 1]
  /\ Commit(setStreaming(calls[i].cap, FALSE) \o setStreaming(calls[i].cap, FALSE))
  /\ isStreaming' = FALSE
  /\ Finally
  /\ UNCHANGED exceptChat

\* cancelRequest(), of the current render
cancelRequest ==
  /\ abortControllerRef # 0
  /\ calls' = [calls EXCEPT ![abortControllerRef].signal = "aborted"]
  /\ abortControllerRef' = 0
  /\ isSending' = FALSE
  /\ Commit(setStreaming(activeChat, FALSE))
  /\ isStreaming' = FALSE
  /\ UNCHANGED exceptChat

\* The titles a user gives a chat.
CustomTitles == { Title(<<"Mine">>, 4, FALSE) }

\* updateChatTitle(chatId, title) for the active chat: both states are
\* updated from their current values.
updateChatTitle(title) ==
  /\ activeChat.title # title
  /\ activeChat' = [activeChat EXCEPT !.title = title]
  /\ chats' = [chats EXCEPT !.title = title]
  /\ UNCHANGED <<isStreaming, isSending, abortControllerRef, calls>>
  /\ UNCHANGED exceptChat

\* The conversations the screen starts with: a new chat, or a stored chat
\* of one exchange.
InitialChats ==
  { NewChat,
    Chat(generateChatTitle(Text(<<"hello">>, 5)),
         <<ChatMessage("user", Text(<<"hello">>, 5), FALSE),
           ChatMessage("assistant", Concat(<<Delta(1)>>), FALSE)>>) }

InitChat ==
  /\ retryConfig = DEFAULT_RETRY_CONFIG
  /\ config = NewConfig(<<"http://a:1234">>, DEFAULT_TIMEOUT)
  /\ InitClientVars
  /\ InitStreamVars
  /\ InitStorageVars
  /\ InitInstanceVars
  /\ InitHealthVars
  /\ InitModelVars
  /\ InitChunkVars
  /\ InitServiceVars
  /\ InitErrorVars
  /\ activeChat \in InitialChats
  /\ chats = activeChat
  /\ isStreaming = FALSE
  /\ isSending = FALSE
  /\ abortControllerRef = 0
  /\ calls = <<>>

NextChat ==
  \/ \E content \in UserTexts : handleSend(content)
  \/ cancelRequest
  \/ \E title \in CustomTitles : updateChatTitle(title)
  \/ \E i \in DOMAIN calls : ChatStreamOpened(i)
  \/ \E i \in DOMAIN calls : \E error \in HandshakeErrors : ChatStreamRejected(i, error)
  \/ \E i \in DOMAIN calls : onContent(i)
  \/ \E i \in DOMAIN calls : onComplete(i)
  \/ \E i \in DOMAIN calls : \E error \in StreamFailures : onError(i, error)

SpecChat == InitChat /\ [][NextChat]_vars

(***************************************************************************)
(* CLAIMS ABOUT THE CHAT STATE                                             *)
(***************************************************************************)
StreamingFlagOk(chat) ==
  \A i \in DOMAIN chat :
    chat[i].isStreaming => (i = Len(chat) /\ chat[i].role = "assistant")

\* C11: in every state of the chat, a message with isStreaming = true is the
\* last message of its conversation and has role assistant (so there is at
\* most one).
C11_OneTrailingStreamingMessage ==
  StreamingFlagOk(activeChat.messages) /\ StreamingFlagOk(chats.messages)

Outstanding == {i \in DOMAIN calls : calls[i].pc # "finished"}

\* C12: at no time are two runs of sendMessageStream outstanding: a second
\* one is not started before the earlier one returned or raised.
C12_OneOutstandingSend == Cardinality(Outstanding) <= 1

\* The step is the start of a run of sendMessage (handleSend).
SendStarts == Len(calls') = Len(calls) + 1

\* The content the run started by this step sends
SentContent == calls'[Len(calls')].content

\* The step is the return of run i.
Returns(i) == calls[i].pc # "finished" /\ calls'[i].pc = "finished"

\* The roles and contents of a list of messages
RolesAndContents(messages) ==
  [k \in DOMAIN messages |-> <<messages[k].role, messages[k].content>>]

\* C21: a run of sendMessage that ended in failure has shown an error
\* snackbar exactly when the code of its error is not CANCELLED.
C21_SnackbarUnlessCancelled ==
  \A i \in DOMAIN calls :
    (calls[i].pc = "finished" /\ calls[i].error # <<>>) =>
      (calls[i].snackbars > 0 <=> calls[i].error[1].code # ErrorCodes.CANCELLED)

\* C21 witness: a run cancelled by cancelRequest during the handshake has
\* ended with the cancelled error and shown no error snackbar.
C21_Witness ==
  \E i \in DOMAIN calls :
    /\ calls[i].pc = "finished"
    /\ calls[i].signal = "aborted"
    /\ calls[i].error # <<>>
    /\ calls[i].error[1].code = ErrorCodes.CANCELLED
    /\ calls[i].snackbars = 0

HasUserMessage(chat) == \E k \in DOMAIN chat.messages : chat.messages[k].role = "user"

\* C25: the addMessage calls of a send derive the title from the content
\* sent when the conversation has no user message yet and its title was not
\* customized, and leave the title alone otherwise.
C25_TitleFromFirstUserMessage ==
  [][SendStarts =>
       activeChat'.title =
         IF ~HasUserMessage(activeChat) /\ activeChat.title \notin CustomTitles
           THEN generateChatTitle(SentContent)
           ELSE activeChat.title]_vars

\* C28: when a run of sendMessage whose signal was never aborted completes
\* without an error, the active conversation is the messages from before the
\* call, the user message sent, and one assistant message whose content is the
\* deltas of this run in arrival order.
C28_ConversationAfterSend ==
  [][\A i \in DOMAIN calls :
       (Returns(i) /\ calls'[i].error = <<>> /\ calls[i].signal = "armed") =>
         RolesAndContents(activeChat'.messages) =
           RolesAndContents(calls[i].cap.messages)
             \o << <<"user", calls[i].content>>,
                   <<"assistant", Concat(calls[i].full)>> >>]_vars

\* C29: the two addMessage calls at the start of sendMessage both take
\* effect: the conversation grows by the user message and the empty assistant
\* message.
C29_BothAddMessagesTakeEffect ==
  [][SendStarts =>
       activeChat'.messages =
         activeChat.messages
           \o << ChatMessage("user", SentContent, FALSE),
                 ChatMessage("assistant", NoText, FALSE) >>]_vars

\* C30: when a run of sendMessage returns, whatever its outcome, isSending
\* and isStreaming are false and no message of the active conversation has
\* isStreaming = true.
C30_StreamingStateFinished ==
  [][\A i \in DOMAIN calls :
       Returns(i) =>
         /\ ~isSending'
         /\ ~isStreaming'
         /\ \A k \in DOMAIN activeChat'.messages : ~activeChat'.messages[k].isStreaming]_vars

\* C31: while the latest send is in flight and was not cancelled,
\* abortControllerRef holds the controller of that send and isSending is
\* true: the completion of an earlier send has not cleared either.
C31_ControllerOfRunningSend ==
  LET n == Len(calls) IN
  (n > 0 /\ calls[n].pc # "finished" /\ calls[n].signal = "armed") =>
    (abortControllerRef = n /\ isSending)

\* Two message lists that differ at most in the content and isStreaming
\* fields of the last message.
SameButLastPartial(before, after) ==
  /\ Len(after) = Len(before)
  /\ \A k \in 1..(Len(before) - 1) : after[k] = before[k]
  /\ Len(before) > 0 => after[Len(before)].role = before[Len(before)].role

\* C34: every step of a send after its start (a streaming update, its
\* completion, its failure or its cancellation) leaves the number and order
\* of the messages of the active conversation and every field of every
\* message but the content and isStreaming of the last one as they were
\* immediately before.
C34_StreamingUpdatesTouchLastOnly ==
  [][Len(calls') = Len(calls)
       => SameButLastPartial(activeChat.messages, activeChat'.messages)]_vars

(***************************************************************************)
(* HEALTH CHECK (healthCheck.ts)                                           *)
(***************************************************************************)
\* The body of a 2xx answer to GET /v1/models, parsed: JSON null, an object
\* without a data member, or an object whose data is a list of models.
NullBody == [isNull |-> TRUE, hasData |-> FALSE, data |-> <<>>]
ObjectWithoutData == [isNull |-> FALSE, hasData |-> FALSE, data |-> <<>>]
ModelsResponse(models) == [isNull |-> FALSE, hasData |-> TRUE, data |-> models]

\* A ModelInfo: its id, and a tag telling apart two entries of the same id.
ModelInfo(id, tag) == [id |-> id, tag |-> tag]

ModelInfos == { ModelInfo("m1", 1), ModelInfo("m2", 1), ModelInfo("m1", 2), ModelInfo("m3", 1) }

ModelLists == UNION { [1..n -> ModelInfos] : n \in 0..2 }

ResponseBodiesOfModels == {NullBody, ObjectWithoutData} \cup {ModelsResponse(l) : l \in ModelLists}

\* An Error with an empty message
EmptyFailure == NativeError("Error", "")

\* What client.get rejects with: request() throws the ServerError of a
\* non-2xx answer or handleFetchError of what fetch or response.json() threw.
GetErrors ==
  { handleFetchError(e) :
      e \in {AbortErrorValue, NetworkFailure, PlatformTimeout, SyntaxFailure, EmptyFailure} }
  \cup { ServerError("Server error: 500", 500), ServerError("Server error: 404", 404) }

\* How client.get settles
Resolved(data) == [ok |-> TRUE, data |-> data, error |-> <<>>]
Rejected(error) == [ok |-> FALSE, data |-> NullBody, error |-> <<error>>]

GetOutcomes ==
  {Resolved(d) : d \in ResponseBodiesOfModels} \cup {Rejected(e) : e \in GetErrors}

\* Date.now() - startTime, over two values
Latencies == {1, 3}

HealthCheckResult(isHealthy, latency, modelsAvailable, error) ==
  [isHealthy |-> isHealthy, latency |-> latency, modelsAvailable |-> modelsAvailable,
   error |-> error]

\* response.data?.data?.length || 0
modelsAvailable(data) == IF data.isNull \/ ~data.hasData THEN 0 ELSE Len(data.data)

\* check without its catch block: the rejection of client.get leaves check.
checkCatch_Rethrow(error, latency) ==
  [raised |-> TRUE, result |-> <<>>]

\* The catch block of check: apiError.message || 'Health check failed'
checkCatch(error, latency) ==
  [raised |-> FALSE,
   result |-> <<HealthCheckResult(FALSE, latency, 0,
                  <<IF error.msg = "" THEN "Health check failed" ELSE error.msg>>)>>]

\* check from const response = await client.get(...) on, for the way the
\* call settled
checkAfterGet(outcome, latency) ==
  IF outcome.ok
    THEN [raised |-> FALSE,
          result |-> <<HealthCheckResult(TRUE, latency, modelsAvailable(outcome.data), <<>>)>>]
    ELSE checkCatch(outcome.error[1], latency)

\* successRate >= 0.5 for successRate = healthy / count
atLeastHalf_Strict(healthy, count) == 2 * healthy > count

atLeastHalf(healthy, count) == 2 * healthy >= count

Sum(results) ==
  LET RECURSIVE S(_)
      S(k) == IF k = 0 THEN 0 ELSE results[k].latency + S(k - 1)
  IN S(Len(results))

\* checkMultiple after its loop: the value it returns for the results.
\* successRate and averageLatency are quotients, kept as num / den.
checkMultipleReturn(results, count) ==
  LET healthyResults == SelectSeq(results, LAMBDA r : r.isHealthy) IN
  IF Len(healthyResults) = 0
    THEN [isHealthy |-> FALSE, successRate |-> [num |-> 0, den |-> 1],
          averageLatency |-> <<>>]
    ELSE [isHealthy |-> atLeastHalf(Len(healthyResults), count),
          successRate |-> [num |-> Len(healthyResults), den |-> count],
          averageLatency |-> <<[num |-> Sum(healthyResults), den |-> Len(healthyResults)]>>]

\* check(signal) called on its own, up to the await of client.get
CallCheck ==
  /\ hcPc = "idle"
  /\ cmPc = "idle"
  /\ hcPc' = "get"
  /\ UNCHANGED <<hcOutcome, hcResult, cmPc, cmCount, cmResults, cmReturn, cmStarted>>
  /\ UNCHANGED exceptHealth

\* checkMultiple(count, delayMs) up to its first await: the first check is
\* started, or the loop is not entered and the value is returned.
CallCheckMultiple(count) ==
  /\ hcPc = "idle"
  /\ cmPc = "idle"
  /\ cmCount' = count
  /\ IF count > 0
       THEN /\ hcPc' = "get"
            /\ cmPc' = "check"
            /\ cmStarted' = 1
            /\ UNCHANGED cmReturn
       ELSE /\ cmPc' = "returned"
            /\ cmReturn' = <<checkMultipleReturn(<<>>, count)>>
            /\ UNCHANGED <<hcPc, cmStarted>>
  /\ UNCHANGED <<hcOutcome, hcResult, cmResults>>
  /\ UNCHANGED exceptHealth

\* client.get settles: check returns its result (or raises); inside
\* checkMultiple the result is pushed and the delay is awaited, or the loop
\* ends and the value is returned.
GetSettles(outcome, latency) ==
  /\ hcPc = "get"
  /\ hcOutcome' = <<outcome>>
  /\ LET r == checkAfterGet(outcome, latency) IN
     IF r.raised
       THEN /\ hcPc' = "raised"
            /\ UNCHANGED <<hcResult, cmResults, cmReturn>>
            /\ cmPc' = IF cmPc = "check" THEN "raised" ELSE cmPc
       ELSE /\ hcPc' = "returned"
            /\ hcResult' = r.result
            /\ IF cmPc = "check"
                 THEN /\ cmResults' = Append(cmResults, r.result[1])
                      /\ IF Len(cmResults) + 1 < cmCount
                           THEN cmPc' = "delay" /\ UNCHANGED cmReturn
                           ELSE /\ cmPc' = "returned"
                                /\ cmReturn' = <<checkMultipleReturn(cmResults', cmCount)>>
                 ELSE UNCHANGED <<cmPc, cmResults, cmReturn>>
  /\ UNCHANGED <<cmCount, cmStarted>>
  /\ UNCHANGED exceptHealth

\* The delay between two checks of checkMultiple is over: the next check.
DelayDone ==
  /\ cmPc = "delay"
  /\ cmPc' = "check"
  /\ hcPc' = "get"
  /\ cmStarted' = cmStarted + 1
  /\ UNCHANGED <<hcOutcome, hcResult, cmCount, cmResults, cmReturn>>
  /\ UNCHANGED exceptHealth

InitHealth ==
  /\ retryConfig = DEFAULT_RETRY_CONFIG
  /\ config = NewConfig(<<"http://a:1234">>, DEFAULT_TIMEOUT)
  /\ InitClientVars
  /\ InitStreamVars
  /\ InitStorageVars
  /\ InitInstanceVars
  /\ InitChatVars
  /\ InitServiceVars
  /\ InitErrorVars
  /\ InitHealthVars
  /\ InitModelVars
  /\ InitChunkVars

NextHealth ==
  \/ CallCheck
  \/ \E count \in 0..MaxCount : CallCheckMultiple(count)
  \/ \E outcome \in GetOutcomes : \E latency \in Latencies : GetSettles(outcome, latency)
  \/ DelayDone

SpecHealth == InitHealth /\ [][NextHealth]_vars

(***************************************************************************)
(* CLAIMS ABOUT THE HEALTH CHECK                                           *)
(***************************************************************************)
\* C22: check never raises; when client.get failed (network failure, timeout,
\* cancellation, non-2xx answer, body that is no JSON) its result has
\* isHealthy = false and a non-empty error string; when it succeeded the
\* result has isHealthy = true and the number of models of the answer.
C22_CheckNeverRaises ==
  /\ hcPc # "raised"
  /\ hcPc = "returned" =>
       IF hcOutcome[1].ok
         THEN /\ hcResult[1].isHealthy
              /\ hcResult[1].error = <<>>
              /\ hcResult[1].modelsAvailable =
                   (IF hcOutcome[1].data.hasData THEN Len(hcOutcome[1].data.data) ELSE 0)
         ELSE /\ ~hcResult[1].isHealthy
              /\ hcResult[1].error # <<>>
              /\ hcResult[1].error[1] # ""
              /\ hcResult[1].modelsAvailable = 0

\* C22 witness: a check whose GET failed with an error of empty message has
\* returned an unhealthy result.
C22_Witness ==
  /\ hcPc = "returned"
  /\ ~hcOutcome[1].ok
  /\ hcOutcome[1].error[1].msg = ""
  /\ ~hcResult[1].isHealthy

Healthy(results) == Len(SelectSeq(results, LAMBDA r : r.isHealthy))

Returned(value) == [threw |-> FALSE, value |-> value]
Threw(error) == [threw |-> TRUE, value |-> error]

\* The catch block of getModel and of getModels wrapping every error.
rethrowOrWrap_WrapAll(error, message, code) ==
  APIError(message, code, NoStatus, <<error>>)

\* if (error instanceof APIError) throw error; throw new APIError(...)
rethrowOrWrap(error, message, code) ==
  IF error.api THEN error ELSE APIError(message, code, NoStatus, <<error>>)

\* getModels(signal) for the way client.get settled
getModels(outcome) ==
  IF outcome.ok
    THEN IF outcome.data.isNull \/ ~outcome.data.hasData
           THEN Threw(rethrowOrWrap(APIError("Invalid models response", "INVALID_RESPONSE",
                                             NoStatus, <<>>),
                                    "Failed to fetch models", "FETCH_MODELS_ERROR"))
           ELSE Returned(outcome.data.data)
    ELSE Threw(rethrowOrWrap(outcome.error[1], "Failed to fetch models",
                             "FETCH_MODELS_ERROR"))

\* models.find((m) => m.id === modelId): <<>> (undefined) or the first match
Find(models, modelId) ==
  LET hits == {k \in DOMAIN models : models[k].id = modelId} IN
  IF hits = {} THEN <<>>
  ELSE <<models[CHOOSE k \in hits : \A h \in hits : k <= h]>>

\* getModel(modelId, signal) from the await of getModels on
getModel(modelId, outcome) ==
  LET models == getModels(outcome) IN
  IF models.threw
    THEN Threw(rethrowOrWrap(models.value, "Failed to get model", "GET_MODEL_ERROR"))
  ELSE IF Find(models.value, modelId) = <<>>
    THEN Threw(rethrowOrWrap(
                 ModelNotFoundError("Model \"" \o modelId \o "\" not found", modelId),
                 "Failed to get model", "GET_MODEL_ERROR"))
  ELSE Returned(Find(models.value, modelId)[1])

\* The ids asked for; "m4" is in no list.
ModelIds == {"m1", "m2", "m3", "m4"}

CallGetModel(modelId) ==
  /\ msPc = "idle"
  /\ msPc' = "getModels"
  /\ msModelId' = modelId
  /\ UNCHANGED <<msOutcome, msResult>>
  /\ UNCHANGED exceptModels

\* client.get settles: getModels and then getModel run to their ends.
GetModelsSettles(outcome) ==
  /\ msPc = "getModels"
  /\ msOutcome' = <<outcome>>
  /\ LET r == getModel(msModelId, outcome) IN
     /\ msPc' = IF r.threw THEN "threw" ELSE "returned"
     /\ msResult' = <<r.value>>
  /\ UNCHANGED msModelId
  /\ UNCHANGED exceptModels

InitModels ==
  /\ retryConfig = DEFAULT_RETRY_CONFIG
  /\ config = NewConfig(<<"http://a:1234">>, DEFAULT_TIMEOUT)
  /\ InitClientVars
  /\ InitStreamVars
  /\ InitStorageVars
  /\ InitInstanceVars
  /\ InitChatVars
  /\ InitServiceVars
  /\ InitErrorVars
  /\ InitHealthVars
  /\ InitModelVars
  /\ InitChunkVars

NextModels ==
  \/ \E modelId \in ModelIds : CallGetModel(modelId)
  \/ \E outcome \in GetOutcomes : GetModelsSettles(outcome)

SpecModels == InitModels /\ [][NextModels]_vars

(***************************************************************************)
(* CLAIMS ABOUT THE MODEL SERVICE                                          *)
(***************************************************************************)
\* C24: getModel(id) returns a model of the server's list whose id is the
\* argument when there is one, raises a ModelNotFoundError whose modelId is
\* the argument when the list has none, and raises the error of getModels
\* unchanged.
C24_GetModel ==
  msPc \in {"returned", "threw"} =>
    LET outcome == msOutcome[1]
        list == outcome.data.data IN
    IF ~outcome.ok
      THEN msPc = "threw" /\ msResult[1] = outcome.error[1]
    ELSE IF ~outcome.data.hasData
      THEN msPc = "threw" /\ msResult[1].code = "INVALID_RESPONSE"
    ELSE IF \E k \in DOMAIN list : list[k].id = msModelId
      THEN /\ msPc = "returned"
           /\ msResult[1].id = msModelId
           /\ \E k \in DOMAIN list : list[k] = msResult[1]
      ELSE /\ msPc = "threw"
           /\ msResult[1].cls = "ModelNotFoundError"
           /\ msResult[1].code = ErrorCodes.MODEL_NOT_FOUND
           /\ msResult[1].modelId = msModelId

\* C24 witness: a model asked for that a list of two other models lacks.
C24_Witness ==
  /\ msPc = "threw"
  /\ msOutcome[1].ok
  /\ Len(msOutcome[1].data.data) = 2
  /\ msResult[1].cls = "ModelNotFoundError"
  /\ msResult[1].modelId = msModelId

(***************************************************************************)
(* THE CHUNK HELPERS (streamParser.ts) APPLIED TO ONE CHUNK                *)
(***************************************************************************)
\* The choices of the model: delta absent, delta without content, content
\* '' or 'Hi'; finish_reason absent, null or 'stop'.
Choices ==
  { Choice(d[1], d[2], d[3], f) :
      d \in { <<FALSE, FALSE, "">>, <<TRUE, FALSE, "">>, <<TRUE, TRUE, "">>,
              <<TRUE, TRUE, "Hi">> },
      f \in {"absent", "null", "stop"} }

\* What the parser yields: the value of JSON.parse for a data line, which is
\* JSON null or an object without choices or with a list of 0..2 choices.
ParserChunks ==
  {JSONParse(t) : t \in JSONTexts}
    \cup {Chunk("C", TRUE, l) : l \in UNION { [1..n -> Choices] : n \in 0..2 }}

\* chunk.choices evaluated on JSON null throws a TypeError: the call of a
\* helper on a chunk, as a value returned or an error thrown.
CallOnChunk(c, value) == IF c.isNull THEN Threw(NullDereference) ELSE Returned(value)

\* const content = extractContentFromChunk(chunk)
ExtractContent ==
  /\ extracted = <<>>
  /\ extracted' = <<CallOnChunk(givenChunk, extractContentFromChunk(givenChunk))>>
  /\ UNCHANGED <<givenChunk, complete>>
  /\ UNCHANGED exceptChunks

\* isStreamComplete(chunk)
CheckComplete ==
  /\ complete = <<>>
  /\ complete' = <<CallOnChunk(givenChunk, isStreamComplete(givenChunk))>>
  /\ UNCHANGED <<givenChunk, extracted>>
  /\ UNCHANGED exceptChunks

InitChunks ==
  /\ retryConfig = DEFAULT_RETRY_CONFIG
  /\ config = NewConfig(<<"http://a:1234">>, DEFAULT_TIMEOUT)
  /\ InitClientVars
  /\ InitStreamVars
  /\ InitStorageVars
  /\ InitInstanceVars
  /\ InitChatVars
  /\ InitServiceVars
  /\ InitErrorVars
  /\ InitHealthVars
  /\ InitModelVars
  /\ givenChunk \in ParserChunks
  /\ extracted = <<>>
  /\ complete = <<>>

NextChunks ==
  \/ ExtractContent
  \/ CheckComplete

SpecChunks == InitChunks /\ [][NextChunks]_vars

(***************************************************************************)
(* CLAIMS ABOUT THE CHUNK HELPERS                                          *)
(***************************************************************************)
\* C26: for a chunk object, isStreamComplete is true exactly when the chunk
\* has a first choice whose finish_reason is present and not null; it is
\* false without choices, with an empty list of choices, and with a first
\* choice whose finish_reason is null or absent.
C26_StreamCompleteIffFinishReason ==
  (complete # <<>> /\ ~givenChunk.isNull) =>
    /\ ~complete[1].threw
    /\ complete[1].value <=>
         /\ givenChunk.hasChoices
         /\ givenChunk.choices # <<>>
         /\ givenChunk.choices[1].finish_reason # "absent"
         /\ givenChunk.choices[1].finish_reason # "null"

\* C26 witness: the first of two choices has no finish_reason, the second has
\* one: not complete.
C26_Witness ==
  /\ complete # <<>>
  /\ ~givenChunk.isNull
  /\ Len(givenChunk.choices) = 2
  /\ givenChunk.choices[1].finish_reason = "null"
  /\ givenChunk.choices[2].finish_reason = "stop"
  /\ ~complete[1].value

\* C27: on every chunk the parser yields extractContentFromChunk returns,
\* and what it returns is '' when there are no choices, the first choice has
\* no delta or the delta has no content, and the content of the first
\* choice's delta otherwise.
C27_ExtractNeverRaises ==
  extracted # <<>> =>
    /\ ~extracted[1].threw
    /\ extracted[1].value =
         IF /\ givenChunk.hasChoices
            /\ givenChunk.choices # <<>>
            /\ givenChunk.choices[1].hasDelta
            /\ givenChunk.choices[1].hasContent
           THEN givenChunk.choices[1].content
           ELSE ""

(***************************************************************************)
(* THE ERROR CLASSIFIERS (errors.ts) APPLIED TO ONE CAUGHT VALUE           *)
(***************************************************************************)
\* Status codes of the server errors classified.
ClassifiedStatuses == {200, 400, 404, 499, 500, 503, 599, 600}

\* Typed errors, as the constructors of errors.ts and their callers make them.
TypedErrors ==
  { NetworkError("Network request failed", <<>>),
    NetworkError("Network request failed", <<NetworkFailure>>),
    TimeoutError("Request timeout"),
    StreamError("Response body is null", <<>>),
    StreamError("Error parsing stream", <<NetworkFailure>>),
    ModelNotFoundError("Model not found", "m1"),
    ValidationError("Model is required", "model"),
    CancellationError("Request was cancelled"),
    ParseError("Failed to parse response", <<SyntaxFailure>>),
    APIError("No response from model", "NO_RESPONSE", NoStatus, <<>>),
    APIError("Request failed after retries", "REQUEST_FAILED", NoStatus, <<>>),
    APIError("Unexpected token", ErrorCodes.UNKNOWN_ERROR, NoStatus, <<SyntaxFailure>>) }
    \cup { ServerError(ServerErrorMessage(st, "other"), st) : st \in ClassifiedStatuses }
    \cup { ServerError("model crashed", NoStatus) }

\* Values of the platform.
UntypedValues ==
  { AbortErrorValue, NetworkFailure, FetchFailure, PlatformTimeout, SyntaxFailure,
    TimedOutSignal, LowerCaseNetwork, LowerCaseFetch, NetworkTimeout, AbortedTimeout,
    ThrownString }

CaughtValues == TypedErrors \cup UntypedValues

\* handleFetchError(caught)
Classify ==
  /\ handled = <<>>
  /\ handled' = <<handleFetchError(caught)>>
  /\ UNCHANGED <<caught, handledTwice, retryable>>
  /\ UNCHANGED exceptErrors

\* handleFetchError(handleFetchError(caught))
ClassifyAgain ==
  /\ handled # <<>>
  /\ handledTwice = <<>>
  /\ handledTwice' = <<handleFetchError(handled[1])>>
  /\ UNCHANGED <<caught, handled, retryable>>
  /\ UNCHANGED exceptErrors

\* isRetryableError(caught) for a typed error
CheckRetryable ==
  /\ caught.api
  /\ retryable = <<>>
  /\ retryable' = <<isRetryableError(caught)>>
  /\ UNCHANGED <<caught, handled, handledTwice>>
  /\ UNCHANGED exceptErrors

InitErrors ==
  /\ retryConfig = DEFAULT_RETRY_CONFIG
  /\ config = NewConfig(<<"http://a:1234">>, DEFAULT_TIMEOUT)
  /\ InitClientVars
  /\ InitStreamVars
  /\ InitStorageVars
  /\ InitInstanceVars
  /\ InitHealthVars
  /\ InitModelVars
  /\ InitChunkVars
  /\ InitChatVars
  /\ InitServiceVars
  /\ caught \in CaughtValues
  /\ handled = <<>>
  /\ handledTwice = <<>>
  /\ retryable = <<>>

NextErrors ==
  \/ Classify
  \/ ClassifyAgain
  \/ CheckRetryable

SpecErrors == InitErrors /\ [][NextErrors]_vars

(***************************************************************************)
(* CLAIMS ABOUT THE ERROR CLASSIFIERS                                      *)
(***************************************************************************)
\* C19: isRetryableError is true for every network error and every timeout
\* error, true for a server error exactly when its status is in 500..599, and
\* false for every other kind.
C19_RetryableKinds ==
  retryable # <<>> =>
    /\ caught.cls \in {"NetworkError", "TimeoutError"} => retryable[1]
    /\ caught.cls = "ServerError"
         => (retryable[1] <=> (caught.status >= 500 /\ caught.status <= 599))
    /\ caught.cls \in {"StreamError", "ModelNotFoundError", "ValidationError",
                        "CancellationError", "ParseError", "APIError"}
         => ~retryable[1]
    /\ retryable[1] => caught.code \in {ErrorCodes.NETWORK_ERROR,
                                        ErrorCodes.TIMEOUT_ERROR,
                                        ErrorCodes.SERVER_ERROR}

\* C19 witness: server errors at both ends of the range have been judged, 599
\* retryable.
C19_Witness ==
  /\ retryable = <<TRUE>>
  /\ caught.cls = "ServerError"
  /\ caught.status = 599

\* The lower-case words of the classifier's description, found in a message
\* whatever its letter case.
ContainsWord(message, word) ==
  <<message, word>> \in
    { <<"Network request failed", "network">>,
      <<"Failed to fetch", "failed to fetch">>,
      <<"failed to fetch", "failed to fetch">>,
      <<"network error", "network">>,
      <<"socket timeout", "timeout">>,
      <<"Network timeout", "network">>,
      <<"Network timeout", "timeout">> }

\* C20 as stated: an abort signal gives cancelled; otherwise a message
\* containing "timeout" gives timeout; otherwise a message containing
\* "network" or "failed to fetch" gives network; anything else gives unknown;
\* a typed error is returned unchanged and classifying twice changes nothing.
C20_ClassifierAsStated ==
  /\ handled # <<>> =>
       IF caught.api THEN handled[1] = caught
       ELSE IF caught.isError /\ caught.name = "AbortError"
         THEN handled[1].code = ErrorCodes.CANCELLED
       ELSE IF caught.isError /\ ContainsWord(caught.msg, "timeout")
         THEN handled[1].code = ErrorCodes.TIMEOUT_ERROR
       ELSE IF caught.isError /\ (ContainsWord(caught.msg, "network")
                                  \/ ContainsWord(caught.msg, "failed to fetch"))
         THEN handled[1].code = ErrorCodes.NETWORK_ERROR
       ELSE handled[1].code = ErrorCodes.UNKNOWN_ERROR
  /\ handledTwice # <<>> => handledTwice = handled

\* C20 amended: a typed error is returned unchanged; otherwise an Error named
\* AbortError gives cancelled; otherwise an Error named TimeoutError or whose
\* message contains "timeout" gives timeout; otherwise an Error whose message
\* contains "Network" or "Failed to fetch", spelled with these capitals, gives
\* network; every other Error and every value that is no Error gives unknown.
\* The result is a typed error of exactly that kind, and classifying it again
\* returns it unchanged.
C20_Classifier ==
  /\ handled # <<>> =>
       /\ handled[1].api
       /\ IF caught.api THEN handled[1] = caught
          ELSE IF ~caught.isError
            THEN handled[1].code = ErrorCodes.UNKNOWN_ERROR /\ handled[1].cls = "APIError"
          ELSE IF caught.name = "AbortError"
            THEN handled[1].code = ErrorCodes.CANCELLED
                   /\ handled[1].cls = "CancellationError"
          ELSE IF caught.name = "TimeoutError" \/ Includes(caught.msg, "timeout")
            THEN handled[1].code = ErrorCodes.TIMEOUT_ERROR
                   /\ handled[1].cls = "TimeoutError"
          ELSE IF Includes(caught.msg, "Network") \/ Includes(caught.msg, "Failed to fetch")
            THEN handled[1].code = ErrorCodes.NETWORK_ERROR
                   /\ handled[1].cls = "NetworkError"
                   /\ handled[1].cause = <<caught>>
          ELSE handled[1].code = ErrorCodes.UNKNOWN_ERROR /\ handled[1].cls = "APIError"
  /\ handledTwice # <<>> => handledTwice = handled

\* C20 witness: a message holding both "Network" and "timeout" was classified
\* as a timeout, twice with the same result.
C20_Witness ==
  /\ caught = NetworkTimeout
  /\ handled # <<>>
  /\ handled[1].code = ErrorCodes.TIMEOUT_ERROR
  /\ handledTwice = handled

(***************************************************************************)
(* CLAIMS ABOUT LMStudioClient.request                                     *)
(***************************************************************************)
Finished == reqPc \in {"returned", "threw"}

Is5xx(o) == o.how = "response" /\ o.status >= 500 /\ o.status <= 599
IsNonRetryableStatus(o) ==
  o.how = "response" /\ ~ResponseOk(o.status) /\ ~(o.status >= 500 /\ o.status <= 599)

\* C1: with maxRetries = N, a call whose every attempt is answered with a 5xx
\* status makes exactly 1 + N network attempts and then raises a server error;
\* an attempt answered with a non-2xx status outside 500..599 is the last one:
\* the server error is raised with no retry (so a call answered that way at
\* once makes exactly one attempt).
C1_RetryOn5xxOnly ==
  /\ (Finished /\ outcomes # <<>> /\ \A i \in DOMAIN outcomes : Is5xx(outcomes[i]))
       => /\ reqPc = "threw"
          /\ thrown[1].cls = "ServerError"
          /\ thrown[1].status >= 500
          /\ netAttempts = 1 + retryConfig.maxRetries
          /\ Len(outcomes) = 1 + retryConfig.maxRetries
  /\ \A i \in DOMAIN outcomes :
       IsNonRetryableStatus(outcomes[i])
         => /\ reqPc = "threw"
            /\ thrown[1].cls = "ServerError"
            /\ thrown[1].status = outcomes[i].status
            /\ i = Len(outcomes)
            /\ netAttempts = i

\* C1 witness: a call with at least one retry allowed has been answered 5xx
\* on every attempt and has given up.
C1_Witness ==
  /\ reqPc = "threw"
  /\ retryConfig.maxRetries >= 1
  /\ Len(outcomes) = 1 + retryConfig.maxRetries
  /\ \A i \in DOMAIN outcomes : Is5xx(outcomes[i])
  /\ thrown[1].cls = "ServerError"

\* C2: if the caller cancels during an attempt (while fetch or the body read of
\* that attempt is pending), the call ends by raising a CancellationError and
\* no network attempt starts after the cancellation.
C2_CancelRaisesCancelled ==
  (Finished /\ cancelPc \in {"fetch", "text", "json"})
    => /\ reqPc = "threw"
       /\ thrown[1].cls = "CancellationError"
       /\ netAttempts = cancelNet

\* C3: the error raised for an attempt ended by the merged abort signal has
\* the kind of the source that fired first: timeout when the per-attempt timer
\* fired and the caller never cancelled, cancelled when the caller cancelled.
C3_FirstSignalDecidesKind ==
  (reqPc = "threw" /\ outcomes[Len(outcomes)].how = "abort")
    => /\ (abortedBy = "timeout" /\ signal # "aborted")
            => thrown[1].code = ErrorCodes.TIMEOUT_ERROR
       /\ abortedBy = "user" => thrown[1].code = ErrorCodes.CANCELLED

\* C32: an attempt ended by its own timeout timer, the caller not having
\* cancelled, is a retryable failure: the call raises after such an attempt
\* only when it was attempt number 1 + maxRetries.
C32_TimedOutAttemptRetried ==
  (/\ reqPc = "threw"
   /\ outcomes[Len(outcomes)].how = "abort"
   /\ abortedBy = "timeout"
   /\ signal # "aborted")
    => /\ attempt = retryConfig.maxRetries
       /\ Len(outcomes) = 1 + retryConfig.maxRetries

\* C37: a timeout timer armed by request() is pending only while the fetch
\* of its attempt is: it has been cleared when the attempt has finished, and
\* no timer is pending when the call has returned or raised.
C37_NoTimerOutlivesAttempt ==
  /\ \A k \in timers : k = attempt /\ reqPc = "fetch"
  /\ Finished => timers = {}

\* C13: a caller cancellation during the wait between two attempts ends the
\* wait at once: a call cancelled while it sleeps is no longer sleeping, it has
\* raised cancelled, and no network attempt was started after the cancellation.
C13_CancelEndsRetryWait ==
  cancelPc = "sleep"
    => /\ reqPc = "threw"
       /\ thrown[1].code = ErrorCodes.CANCELLED
       /\ netAttempts = cancelNet

\* The delay without jitter the policy `policy` gives for attempt index n.
PolicyDelay(policy, n) ==
  IF policy.initialDelayMs * (policy.backoffMultiplier ^ n) <= policy.maxDelayMs
    THEN policy.initialDelayMs * (policy.backoffMultiplier ^ n)
    ELSE policy.maxDelayMs

AllRetryable == \A i \in DOMAIN errors : isRetryableError(errors[i])

\* C14: a call in flight keeps the URL, the per-attempt timeout and the retry
\* policy in force when it started, whatever setBaseUrl, setTimeout and
\* setRetryConfig do meanwhile: every attempt fetches the URL built at the
\* start with the timeout of the start, every wait has the delay of the
\* starting policy, and a call whose attempts all fail with retryable errors
\* gives up after exactly 1 + maxRetries attempts of the starting policy.
C14_InFlightUsesSnapshot ==
  started # <<>> =>
    /\ \A i \in DOMAIN armed :
         /\ armed[i].url = started[1].config.baseUrl \o RequestPath
         /\ armed[i].timeout = started[1].config.timeout
    /\ \A i \in DOMAIN delays :
         delays[i].ms - delays[i].random = PolicyDelay(started[1].retryConfig, i - 1)
    /\ Len(errors) <= 1 + started[1].retryConfig.maxRetries
    /\ (reqPc = "threw" /\ AllRetryable)
         => Len(errors) = 1 + started[1].retryConfig.maxRetries

\* C17: when the call gives up after 1 + maxRetries attempts that all failed
\* with retryable errors, it raises the error of the last attempt: the
\* classified error of that attempt, with the status the last response had.
C17_LastErrorRaised ==
  (reqPc = "threw" /\ AllRetryable /\ Len(errors) = 1 + retryConfig.maxRetries)
    => /\ thrown = <<errors[Len(errors)]>>
       /\ outcomes[Len(outcomes)].how = "response"
            => /\ thrown[1].cls = "ServerError"
               /\ thrown[1].status = outcomes[Len(outcomes)].status
       /\ outcomes[Len(outcomes)].how = "transport"
            => thrown[1].cls \in {"NetworkError", "TimeoutError"}

\* C17 witness: a call gave up after retries whose first and last attempts
\* failed with different errors.
C17_Witness ==
  /\ reqPc = "threw"
  /\ AllRetryable
  /\ retryConfig.maxRetries >= 1
  /\ Len(errors) = 1 + retryConfig.maxRetries
  /\ errors[1] # errors[Len(errors)]
  /\ thrown = <<errors[Len(errors)]>>

\* C18: the i-th wait of a call (i = 1 after the first failed attempt) uses
\* attempt index n = i - 1 and lasts min(initialDelayMs * backoffMultiplier^n,
\* maxDelayMs) plus a jitter in [0, 1000); without the jitter it never exceeds
\* maxDelayMs and, for a multiplier >= 1, never decreases from one wait to the
\* next.
C18_RetryDelay ==
  /\ Len(delays) <= Len(errors)
  /\ reqPc = "sleep" => Len(delays) = Len(errors)
  /\ \A i \in DOMAIN delays :
       /\ delays[i].n = i - 1
       /\ delays[i].random >= 0 /\ delays[i].random < 1000
       /\ delays[i].ms - delays[i].random = PolicyDelay(retryConfig, i - 1)
       /\ delays[i].ms - delays[i].random <= retryConfig.maxDelayMs
       /\ (i > 1 /\ retryConfig.backoffMultiplier >= 1)
            => delays[i].ms - delays[i].random
                 >= delays[i - 1].ms - delays[i - 1].random

\* C18 witness: a call has waited twice, the second wait longer than the
\* first and cut to maxDelayMs.
C18_Witness ==
  /\ Len(delays) >= 2
  /\ delays[2].ms - delays[2].random = retryConfig.maxDelayMs
  /\ delays[2].ms - delays[2].random > delays[1].ms - delays[1].random
  /\ retryConfig.initialDelayMs * (retryConfig.backoffMultiplier ^ 1)
       > retryConfig.maxDelayMs

(***************************************************************************)
(* CLAIMS ABOUT processStream, sendMessageStream AND parseStreamResponse   *)
(***************************************************************************)
Count(cb) == Cardinality({i \in DOMAIN callbacks : callbacks[i].cb = cb})

IsPrefix(a, b) == Len(a) <= Len(b) /\ SubSeq(b, 1, Len(a)) = a

IsDoneLine(line) ==
  /\ ~parseSSELine(line).none
  /\ parseSSELine(line).type = DataType
  /\ parseSSELine(line).data = DoneMarker

IsValidDataLine(line) ==
  /\ ~parseSSELine(line).none
  /\ parseSSELine(line).type = DataType
  /\ parseSSELine(line).data # DoneMarker
  /\ JSONValid(parseSSELine(line).data)

IsMalformedDataLine(line) ==
  /\ ~parseSSELine(line).none
  /\ parseSSELine(line).type = DataType
  /\ parseSSELine(line).data # DoneMarker
  /\ ~JSONValid(parseSSELine(line).data)

\* The lines in front of the first [DONE] line (all of them when there is none).
LinesBeforeDone(lines) ==
  IF \E i \in DOMAIN lines : IsDoneLine(lines[i])
    THEN SubSeq(lines, 1,
                (CHOOSE i \in DOMAIN lines :
                   IsDoneLine(lines[i]) /\ \A j \in 1..(i - 1) : ~IsDoneLine(lines[j])) - 1)
    ELSE lines

\* The chunks of the valid data lines among lines, in the order of the lines.
ValidChunks(lines) ==
  [i \in 1..Len(SelectSeq(lines, IsValidDataLine)) |->
     JSONParse(parseSSELine(SelectSeq(lines, IsValidDataLine)[i]).data)]

\* The lines of the whole payload (the last one possibly without newline) and
\* the complete lines delivered so far.
AllLines == Split(payload)
DeliveredLines == splitBuffer(SubSeq(payload, 1, pos)).lines

\* The generator ended by itself with every read successful (no read failure
\* and no consumer leaving the loop).
EndedNormally == genEnd = "returned" /\ readFailure = <<>>

C5_NoCallbackAfterCancel ==
  cbAtCancel # <<>> =>
    \A i \in DOMAIN callbacks :
      i > cbAtCancel[1] => callbacks[i].cb \notin {"onChunk", "onContent", "onComplete"}

\* What parseStreamResponse yields when the whole payload arrives as one batch.
WholeYield(text) ==
  IF linesYield(splitBuffer(text).lines).done
    THEN linesYield(splitBuffer(text).lines).chunks
    ELSE linesYield(splitBuffer(text).lines).chunks \o flushYield(splitBuffer(text).rest)

\* C6: however the payload is cut into read batches, the chunks yielded are
\* those of the single-batch run: always a prefix of them, and all of them
\* when the generator has ended by itself.
C6_BufferBoundaryInvariance ==
  /\ IsPrefix(yielded, WholeYield(payload))
  /\ EndedNormally => yielded = WholeYield(payload)

\* C6 witness: a finished run in which a batch ended inside a line and at
\* least two chunks were yielded.
C6_Witness ==
  /\ EndedNormally
  /\ splitLine
  /\ Len(yielded) >= 2

\* C7: a data line that is not valid JSON is skipped: of a stream with such a
\* line, every valid data line up to [DONE] or the end of the stream is
\* yielded, in the order of the lines.
C7_MalformedLineSkipped ==
  (EndedNormally /\ \E i \in DOMAIN LinesBeforeDone(AllLines) :
                      IsMalformedDataLine(LinesBeforeDone(AllLines)[i]))
    => yielded = ValidChunks(LinesBeforeDone(AllLines))

\* C7 witness: a finished run over a stream with a malformed data line between
\* two valid ones, both yielded.
C7_Witness ==
  /\ EndedNormally
  /\ Len(AllLines) >= 3
  /\ IsValidDataLine(AllLines[1])
  /\ IsMalformedDataLine(AllLines[2])
  /\ IsValidDataLine(AllLines[3])
  /\ yielded = ValidChunks(<<AllLines[1], AllLines[3]>>)

\* C8: as soon as a [DONE] line has been read the generator has ended, without
\* raising; the chunks yielded are those of the valid data lines in front of
\* the first [DONE] line, and no line behind it is yielded.
C8_DoneEndsSequence ==
  (\E i \in DOMAIN DeliveredLines : IsDoneLine(DeliveredLines[i]))
    => /\ genEnd \in {"returned", "closed"}
       /\ genThrown = <<>>
       /\ IsPrefix(yielded, ValidChunks(LinesBeforeDone(DeliveredLines)))
       /\ (genEnd = "returned") =>
            /\ yielded = ValidChunks(LinesBeforeDone(DeliveredLines))
            /\ smsThrown = <<>>

\* C8 witness: the generator ended at a [DONE] line that a valid data line
\* follows in the stream.
C8_Witness ==
  /\ genEnd = "returned"
  /\ \E i \in DOMAIN DeliveredLines : IsDoneLine(DeliveredLines[i])
  /\ \E i \in DOMAIN AllLines :
       /\ IsDoneLine(AllLines[i])
       /\ i < Len(AllLines)
       /\ IsValidDataLine(AllLines[i + 1])
  /\ yielded # <<>>

\* C9: in no state in which the generator has finished is the reader locked.
C9_ReaderReleased == readerLocked => genEnd = "active"

\* C9 witness: the generator took the reader and ended on a cancelled read.
C9_Witness ==
  /\ genEnd = "returned"
  /\ readFailure = <<AbortErrorValue>>
  /\ ~readerLocked

\* C10: a read rejected with an AbortError ends the sequence without an error;
\* a read rejected with anything else makes the generator raise a StreamError
\* whose cause is the rejection.
C10_ReadFailureKinds ==
  readFailure # <<>> =>
    IF readFailure[1].name = "AbortError"
      THEN genEnd = "returned" /\ genThrown = <<>> /\ smsThrown = <<>>
      ELSE /\ genEnd = "threw"
           /\ genThrown[1].cls = "StreamError"
           /\ genThrown[1].code = ErrorCodes.STREAM_ERROR
           /\ genThrown[1].cause = readFailure

\* C10 witness: a read failed with a transport error after a chunk was yielded.
C10_Witness ==
  /\ readFailure = <<NetworkFailure>>
  /\ genEnd = "threw"
  /\ yielded # <<>>

\* A line with the exact prefix `data: `.
HasDataPrefix(line) == StartsWith(line, DataPrefix)

\* C35: only lines with the exact prefix `data: ` yield chunks: the chunks of
\* a stream read to its end are those of the stream with every line lacking
\* the prefix removed (other SSE fields, blank lines, any other line), so
\* such lines never yield and inserting them changes nothing.
C35_OnlyPrefixedLinesYield ==
  EndedNormally
    => yielded = ValidChunks(SelectSeq(LinesBeforeDone(AllLines), HasDataPrefix))

\* The payload ends inside a line: its last line has no newline.
EndsUnterminated == payload # <<>> /\ payload[Len(payload)] # "\n"

\* C36: a stream that ends without a trailing newline and is read to its end
\* yields what the same stream with its last line newline-terminated yields:
\* the chunks of all its lines, the last one included, each once.
C36_UnterminatedLastLine ==
  (EndedNormally /\ EndsUnterminated)
    => yielded = linesYield(AllLines).chunks

\* C36 witness: a finished run over a stream whose unterminated last line is
\* a valid data line, yielded as the last of several chunks.
C36_Witness ==
  /\ EndedNormally
  /\ EndsUnterminated
  /\ IsValidDataLine(AllLines[Len(AllLines)])
  /\ Len(yielded) >= 2
  /\ yielded[Len(yielded)] = JSONParse(parseSSELine(AllLines[Len(AllLines)]).data)
  /\ genEnd = "returned" /\ pos = Len(payload)

\* The concatenation of extractContentFromChunk over a chunk sequence.
RECURSIVE ContentOf(_)
ContentOf(chunks) ==
  IF chunks = <<>> THEN ""
  ELSE extractContentFromChunk(Head(chunks)) \o ContentOf(Tail(chunks))

\* The callbacks due for a chunk sequence: onChunk for each chunk, followed by
\* onContent when the chunk carries content.
RECURSIVE CallsFor(_)
CallsFor(chunks) ==
  IF chunks = <<>> THEN <<>>
  ELSE <<Call("onChunk", Head(chunks).id)>>
       \o (IF extractContentFromChunk(Head(chunks)) # ""
             THEN <<Call("onContent", extractContentFromChunk(Head(chunks)))>>
             ELSE <<>>)
       \o CallsFor(Tail(chunks))

\* C33: a sendMessageStream run that ends without error returns the
\* concatenation of the contents of the chunks it was given, in order; it has
\* called onChunk once per chunk and onContent once per chunk with content, in
\* arrival order, and then onComplete once, last, with the returned content.
C33_ContentIsConcatenation ==
  smsPc = "returned"
    => /\ fullContent = ContentOf(yielded)
       /\ callbacks = Append(CallsFor(yielded), Call("onComplete", fullContent))

C33_Witness ==
  /\ smsPc = "returned"
  /\ Len(yielded) = 3
  /\ fullContent = "Hi!"
  /\ \E i \in DOMAIN yielded : extractContentFromChunk(yielded[i]) = ""

\* C15: a call of sendMessageStream issues the handshake request once and
\* never again: at most one network attempt is ever made (none only when the
\* caller's signal was aborted before the fetch), and a handshake failing with
\* a retryable error (network, timeout, 5xx) is raised after that one attempt.
C15_StreamNeverRetried ==
  /\ strNet <= 1
  /\ smsPc # "idle" => (strNet = 1 \/ strAbortedBy = "user")
  /\ (smsPc = "threw" /\ genEnd = "none")
       => /\ smsThrown[1].api
          /\ isRetryableError(smsThrown[1]) => strNet = 1
          /\ hsStatus # NoStatus
               => (smsThrown[1].cls = "ServerError" /\ smsThrown[1].status = hsStatus)
                    \/ smsThrown[1].cls = "CancellationError"

\* C15 witness: the handshake was answered 503 and the call raised that
\* server error after its single attempt.
C15_Witness ==
  /\ smsPc = "threw"
  /\ genEnd = "none"
  /\ smsThrown[1].cls = "ServerError"
  /\ smsThrown[1].status = 503
  /\ isRetryableError(smsThrown[1])
  /\ strNet = 1


(***************************************************************************)
(* CHAT PERSISTENCE (chatStorage.ts, asyncStorage.ts) AS DRIVEN BY THE     *)
(* ChatProvider (ChatContext.tsx).  saveChat and deleteChat each load the  *)
(* stored list, change their copy and store it; the provider starts a     *)
(* saveChat, without awaiting it, whenever activeChat has changed.         *)
(* AsyncStorage serves the requests in the order they were issued.  Its   *)
(* failures (after which getItem gives null and setItem false) are not    *)
(* modelled.                                                               *)
(***************************************************************************)
\* chats.findIndex((c) => c.id === chat.id), 1-based; 0 when absent
RECURSIVE FindIndexFrom(_, _, _)
FindIndexFrom(list, id, i) ==
  IF i > Len(list) THEN 0
  ELSE IF list[i].id = id THEN i
  ELSE FindIndexFrom(list, id, i + 1)

\* The list saveChat(chat) stores, from the list it loaded.
saveChatList(list, chat) ==
  IF FindIndexFrom(list, chat.id, 1) > 0
    THEN [list EXCEPT ![FindIndexFrom(list, chat.id, 1)] = chat]
    ELSE <<chat>> \o list

\* chats.filter((c) => c.id !== chatId)
RECURSIVE Without(_, _)
Without(list, id) ==
  IF list = <<>> THEN <<>>
  ELSE IF Head(list).id = id THEN Without(Tail(list), id)
  ELSE <<Head(list)>> \o Without(Tail(list), id)

\* The list deleteChat(chatId) of chatStorage.ts stores, from the list it
\* loaded.
deleteChatList(list, chatId) == Without(list, chatId)

\* A run of saveChat(chat) or of ChatContext.deleteChat(chat.id): where it is
\* ("load": loadChats pending, "write": saveChats pending, "done"), the list
\* it is about to store, and for deleteChat the activeChat of its render.
StoreOp(kind, chat, cap) ==
  [kind |-> kind, chat |-> chat, pc |-> "load", list |-> <<>>, cap |-> cap]

\* A pending AsyncStorage request: "getChats" and "setChats" of storeOps[op],
\* or the "setActiveId" of saveActiveChatId.
StorageRequest(op, kind, value) == [op |-> op, kind |-> kind, value |-> value]

SaveOps == {i \in DOMAIN storeOps : storeOps[i].kind = "save"}

\* A handler (addMessage, updateStreamingMessage, setStreaming,
\* updateChatTitle) sets a changed activeChat and, for the same chat, chats;
\* after the render the save effect runs saveChat(activeChat) and
\* saveActiveChatId(activeChat.id), awaiting neither.
ActiveChatChanges ==
  /\ provActiveChat # <<>>
  /\ Cardinality(SaveOps) < MaxSaves
  /\ LET chat == StoredChat(provActiveChat[1].id, provActiveChat[1].rev + 1) IN
     /\ provActiveChat' = <<chat>>
     /\ provChats' = [k \in DOMAIN provChats |->
                        IF provChats[k].id = chat.id THEN chat ELSE provChats[k]]
     /\ storeOps' = Append(storeOps, StoreOp("save", chat, <<>>))
     /\ storageQueue' = storageQueue
          \o <<StorageRequest(Len(storeOps) + 1, "getChats", <<>>),
               StorageRequest(0, "setActiveId", <<chat.id>>)>>
  /\ UNCHANGED <<persisted, persistedActiveId, deletedIds>>
  /\ UNCHANGED exceptStorage

\* ChatContext.deleteChat(chatId) up to its await: deleteChat of
\* chatStorage.ts has called loadChats.
deleteChat(chatId) ==
  /\ \E k \in DOMAIN provChats : provChats[k].id = chatId
  /\ \A i \in DOMAIN storeOps :
       ~(storeOps[i].kind = "delete" /\ storeOps[i].chat.id = chatId)
  /\ storeOps' = Append(storeOps, StoreOp("delete", StoredChat(chatId, 0), provActiveChat))
  /\ storageQueue' = Append(storageQueue,
                            StorageRequest(Len(storeOps) + 1, "getChats", <<>>))
  /\ UNCHANGED <<persisted, persistedActiveId, provActiveChat, provChats, deletedIds>>
  /\ UNCHANGED exceptStorage

\* The oldest pending request is a getItem of the chat list: loadChats
\* returns, the run changes its copy of the list and calls saveChats.
LoadChatsResolves ==
  /\ storageQueue # <<>>
  /\ Head(storageQueue).kind = "getChats"
  /\ LET i == Head(storageQueue).op
         list == IF storeOps[i].kind = "save"
                   THEN saveChatList(persisted, storeOps[i].chat)
                   ELSE deleteChatList(persisted, storeOps[i].chat.id) IN
     /\ storeOps' = [storeOps EXCEPT ![i].pc = "write", ![i].list = list]
     /\ storageQueue' = Append(Tail(storageQueue), StorageRequest(i, "setChats", list))
  /\ UNCHANGED <<persisted, persistedActiveId, provActiveChat, provChats, deletedIds>>
  /\ UNCHANGED exceptStorage

\* The oldest pending request is a setItem of the chat list: the list is
\* stored and the run returns.  ChatContext.deleteChat then goes on after its
\* await: it filters chats and sets activeChat to null if the activeChat of
\* its render was the deleted chat.
SaveChatsResolves ==
  /\ storageQueue # <<>>
  /\ Head(storageQueue).kind = "setChats"
  /\ LET i == Head(storageQueue).op IN
     /\ persisted' = Head(storageQueue).value
     /\ storeOps' = [storeOps EXCEPT ![i].pc = "done"]
     /\ IF storeOps[i].kind = "delete"
          THEN /\ provChats' = Without(provChats, storeOps[i].chat.id)
               /\ provActiveChat' =
                    IF storeOps[i].cap # <<>> /\ storeOps[i].cap[1].id = storeOps[i].chat.id
                      THEN <<>> ELSE provActiveChat
               /\ deletedIds' = deletedIds \cup {storeOps[i].chat.id}
          ELSE UNCHANGED <<provChats, provActiveChat, deletedIds>>
  /\ storageQueue' = Tail(storageQueue)
  /\ UNCHANGED persistedActiveId
  /\ UNCHANGED exceptStorage

\* The oldest pending request is the setItem of saveActiveChatId.
SaveActiveIdResolves ==
  /\ storageQueue # <<>>
  /\ Head(storageQueue).kind = "setActiveId"
  /\ persistedActiveId' = Head(storageQueue).value[1]
  /\ storageQueue' = Tail(storageQueue)
  /\ UNCHANGED <<persisted, storeOps, provActiveChat, provChats, deletedIds>>
  /\ UNCHANGED exceptStorage

InitStorage ==
  /\ retryConfig = DEFAULT_RETRY_CONFIG
  /\ config = NewConfig(<<"http://a:1234">>, DEFAULT_TIMEOUT)
  /\ InitClientVars
  /\ InitStreamVars
  /\ InitStorageVars
  /\ InitInstanceVars
  /\ InitHealthVars
  /\ InitModelVars
  /\ InitChunkVars
  /\ InitChatVars
  /\ InitServiceVars
  /\ InitErrorVars

NextStorage ==
  \/ ActiveChatChanges
  \/ \E chatId \in {"c1", "c2"} : deleteChat(chatId)
  \/ LoadChatsResolves
  \/ SaveChatsResolves
  \/ SaveActiveIdResolves

SpecStorage == InitStorage /\ [][NextStorage]_vars

DeleteOps == {i \in DOMAIN storeOps : storeOps[i].kind = "delete"}

\* C38: once deleteChat(id) has completed, the persisted chat list holds no
\* chat with that id, whatever saveChat runs were in flight (stated for runs
\* with one deleteChat, so that only saveChat runs interleave with it).
C38_DeletedChatStaysDeleted ==
  Cardinality(DeleteOps) <= 1
    => \A id \in deletedIds : \A k \in DOMAIN persisted : persisted[k].id # id


(***************************************************************************)
(* LMStudioClient INSTANCES.  A RetryConfig is an object: the constructor  *)
(* stores the reference of the module's DEFAULT_RETRY_CONFIG in the new    *)
(* instance, so instances share that object until setRetryConfig gives    *)
(* an instance an object of its own.  heap[DefaultRetryConfigRef] is the   *)
(* object DEFAULT_RETRY_CONFIG names.                                      *)
(***************************************************************************)
DefaultRetryConfigRef == 1

\* An instance: the address in its retryConfig field and, as history, the
\* policy its own setRetryConfig calls add up to.
ClientInstance(ref, own) == [ref |-> ref, own |-> own]

\* The policy instance i works with.
PolicyOf(i) == heap[instances[i].ref]

\* { ...target, ...partial }: a new object with the fields of partial over
\* those of target.
Spread(target, partial) ==
  [f \in DOMAIN target |-> IF f \in DOMAIN partial THEN partial[f] ELSE target[f]]

\* setRetryConfig written as Object.assign(this.retryConfig, retryConfig).
assignRetryConfig_InPlace(h, ref, partial) ==
  [heap |-> [h EXCEPT ![ref] = Spread(@, partial)], ref |-> ref]

\* this.retryConfig = { ...this.retryConfig, ...retryConfig }: the heap and
\* the field afterwards.
assignRetryConfig(h, ref, partial) ==
  [heap |-> Append(h, Spread(h[ref], partial)), ref |-> Len(h) + 1]

\* new LMStudioClient(baseUrl): this.retryConfig = DEFAULT_RETRY_CONFIG
NewClient ==
  /\ Len(instances) < MaxClients
  /\ instances' = Append(instances,
                         ClientInstance(DefaultRetryConfigRef, DEFAULT_RETRY_CONFIG))
  /\ UNCHANGED <<heap, lastSet>>
  /\ UNCHANGED exceptInstances

\* instances[i].setRetryConfig(partial)
InstanceSetRetryConfig(i, partial) ==
  /\ Len(heap) <= MaxPolicySets
  /\ LET r == assignRetryConfig(heap, instances[i].ref, partial) IN
     /\ heap' = r.heap
     /\ instances' = [instances EXCEPT ![i].ref = r.ref,
                                       ![i].own = Spread(@, partial)]
  /\ lastSet' = <<[client |-> i, partial |-> partial, before |-> PolicyOf(i)]>>
  /\ UNCHANGED exceptInstances

InitInstances ==
  /\ retryConfig = DEFAULT_RETRY_CONFIG
  /\ config = NewConfig(<<"http://a:1234">>, DEFAULT_TIMEOUT)
  /\ InitClientVars
  /\ InitStreamVars
  /\ InitStorageVars
  /\ InitInstanceVars
  /\ InitHealthVars
  /\ InitModelVars
  /\ InitChunkVars
  /\ InitChatVars
  /\ InitServiceVars
  /\ InitErrorVars

NextInstances ==
  \/ NewClient
  \/ \E i \in DOMAIN instances : \E partial \in PartialPolicies :
       InstanceSetRetryConfig(i, partial)

SpecInstances == InitInstances /\ [][NextInstances]_vars

\* C39: setRetryConfig on one instance changes neither the shared default
\* policy (3 retries, 1000 ms, 10000 ms, multiplier 2) nor the policy of any
\* other instance, made before or after the call: every instance works with
\* the default as changed by its own calls only; and the fields the partial
\* update does not name keep the values they had before the call.
C39_RetryConfigInstanceScoped ==
  /\ heap[DefaultRetryConfigRef]
       = [maxRetries |-> 3, initialDelayMs |-> 1000, maxDelayMs |-> 10000,
          backoffMultiplier |-> 2]
  /\ \A i \in DOMAIN instances : PolicyOf(i) = instances[i].own
  /\ lastSet # <<>> =>
       \A f \in DOMAIN lastSet[1].before :
         PolicyOf(lastSet[1].client)[f]
           = IF f \in DOMAIN lastSet[1].partial
               THEN lastSet[1].partial[f] ELSE lastSet[1].before[f]

\* C39 witness: two instances, one made before and one after a
\* setRetryConfig call on the first, which changed some fields only; the
\* second works with the default policy.
C39_Witness ==
  /\ Len(instances) = 2
  /\ lastSet # <<>>
  /\ lastSet[1].client = 1
  /\ PolicyOf(1) # DEFAULT_RETRY_CONFIG
  /\ PolicyOf(1).maxDelayMs = DEFAULT_RETRY_CONFIG.maxDelayMs
  /\ instances[2].ref = DefaultRetryConfigRef
  /\ PolicyOf(2) = DEFAULT_RETRY_CONFIG

====
